---- MODULE Spec2Model ----
(***************************************************************************)
(* Model of the WeSense Home Assistant ingester: the entity filter         *)
(* (src/src/entity_filter.py), the registry metadata                        *)
(* (src/src/ha_client.py), the transformer (src/src/transformer.py) and the *)
(* per-event path of the orchestrator (src/src/main.py).                    *)
(*                                                                         *)
(* Python strings are tuples of one-character strings, so that lower(),    *)
(* split(), regex search and float() are computed character by character.  *)
(* Python's None and a key missing from a dict are the two tuples None and *)
(* Absent, which are no strings (their element is not one character).      *)
(***************************************************************************)
EXTENDS Integers, Sequences, FiniteSets, TLC

VARIABLES
    config,        \* Config: the filters, the default location, the node name
    metadata,      \* EntityMetadata: entities, devices, areas (or no metadata object)
    cached,        \* EntityFilter._cached_decisions: entity id -> bool
    first,         \* history: the first decision returned per entity id since the last invalidation
    call,          \* history: the last call made on the filter (its arguments and outcome)
    stats,         \* HomeAssistantIngester._stats
    handled,       \* history: the last event given to _handle_state_change and the stages it ran
    published,     \* payloads that MQTTPublisher.publish sent, in order
    written,       \* readings handed to ClickHouseWriter.write, in order
    connections,   \* hub connections on which the registries were loaded so far
    ch,            \* ClickHouseWriter: its client, its buffer, the rows in the database
    life,          \* the run of the ingester: where start() is, its flags, its tasks, the hub
    hist           \* history of the run: the shutdown request, the connection attempts,
                   \* the metadata loads, the writer as close() found it

vars == <<config, metadata, cached, first, call, stats, handled, published, written,
          connections, ch, life, hist>>

-----------------------------------------------------------------------------
(* Bounds of the model *)

\* should_ingest calls made on a filter instance of any configuration (SpecFilter)
MaxEvaluations == 1
\* should_ingest/invalidate_cache calls made on one filter instance (SpecCache)
MaxCalls == 2
\* events delivered to the orchestrator (Spec)
MaxEvents == 2
\* registry loads (hub connections) of one run (Spec)
MaxLoads == 1
\* readings handed to the writer (SpecWriter)
MaxWrites == 3
\* connections the hub accepts, and events it delivers, in one run (SpecLife)
MaxConnects == 2
MaxDelivered == 2

-----------------------------------------------------------------------------
(* Python values *)

None == <<"None">>
Absent == <<"Absent">>

\* bool(x) of a string-or-None value
Truthy(x) == x # None /\ x # Absent /\ x # <<>>

\* dict.get(key, default) on a field that may be missing
DictGet(v, default) == IF v = Absent THEN default ELSE v

UpperChars == <<"A","B","C","D","E","F","G","H","I","J","K","L","M",
                "N","O","P","Q","R","S","T","U","V","W","X","Y","Z">>
LowerChars == <<"a","b","c","d","e","f","g","h","i","j","k","l","m",
                "n","o","p","q","r","s","t","u","v","w","x","y","z">>
Digits == {"0","1","2","3","4","5","6","7","8","9"}

UpperToLower ==
    [c \in {UpperChars[i] : i \in 1..26} |->
        LowerChars[CHOOSE i \in 1..26 : UpperChars[i] = c]]

LowerChar(c) == IF c \in DOMAIN UpperToLower THEN UpperToLower[c] ELSE c

\* str.lower()
LowerStr(s) == [i \in 1..Len(s) |-> LowerChar(s[i])]

LowerToUpper ==
    [c \in {LowerChars[i] : i \in 1..26} |->
        UpperChars[CHOOSE i \in 1..26 : LowerChars[i] = c]]

UpperChar(c) == IF c \in DOMAIN LowerToUpper THEN LowerToUpper[c] ELSE c

\* str.upper()
UpperStr(s) == [i \in 1..Len(s) |-> UpperChar(s[i])]

\* x or "" of a string-or-None value
OrEmpty(x) == IF Truthy(x) THEN x ELSE <<>>

\* The characters of [a-zA-Z0-9_]
WordChars ==
    {UpperChars[i] : i \in 1..26} \cup {LowerChars[i] : i \in 1..26}
        \cup Digits \cup {"_"}

\* re.sub(r"[^a-zA-Z0-9_]", "_", s)
sanitize(s) == [i \in 1..Len(s) |-> IF s[i] \in WordChars THEN s[i] ELSE "_"]

\* s[:3]
Prefix3(s) == [i \in 1..(IF Len(s) < 3 THEN Len(s) ELSE 3) |-> s[i]]

\* sub in s
Contains(s, sub) ==
    \E i \in 0..(Len(s) - Len(sub)) : \A j \in 1..Len(sub) : s[i + j] = sub[j]

\* s.split(".")[0]: the text before the first '.'
BeforeFirstDot(s) ==
    LET dots == {i \in 1..Len(s) : s[i] = "."}
        n == IF dots = {} THEN Len(s)
             ELSE (CHOOSE i \in dots : \A k \in dots : i <= k) - 1
    IN [i \in 1..n |-> s[i]]

\* s.split(".", 1)[1]: the text after the first '.'
AfterFirstDot(s) ==
    LET dots == {i \in 1..Len(s) : s[i] = "."}
        d == CHOOSE i \in dots : \A k \in dots : i <= k
    IN [i \in 1..(Len(s) - d) |-> s[d + i]]

\* float(s) succeeds. The decimal grammar of float(): an optional sign, digits
\* with at most one '.', at least one digit; or nan/inf/infinity in any case.
\* float(None) raises TypeError, which the callers catch like ValueError.
ParsesAsFloat(s) ==
    /\ s # None
    /\ s # Absent
    /\ Len(s) > 0
    /\ LET signed == s[1] \in {"+", "-"}
           body == IF signed THEN [i \in 1..(Len(s) - 1) |-> s[i + 1]] ELSE s
           dots == {i \in 1..Len(body) : body[i] = "."}
           digs == {i \in 1..Len(body) : body[i] \in Digits}
       IN \/ /\ Cardinality(dots) <= 1
             /\ digs # {}
             /\ dots \cup digs = 1..Len(body)
          \/ LowerStr(body) \in {<<"n","a","n">>, <<"i","n","f">>,
                                 <<"i","n","f","i","n","i","t","y">>}

-----------------------------------------------------------------------------
(* Regular expressions *)

\* A compiled exclude pattern is a sequence of character classes (a literal
\* is a class of one character): "[0-9a-f]{12}" is twelve times the class
\* of the hex digits. pattern.search(s) under re.IGNORECASE: the pattern
\* matches at some offset of s.
ClassMatches(cls, c) == \E x \in cls : LowerChar(x) = LowerChar(c)

PatternSearch(pattern, s) ==
    \E i \in 0..(Len(s) - Len(pattern)) :
        \A j \in 1..Len(pattern) : ClassMatches(pattern[j], s[i + j])

\* pattern.replace(".", r"\.").replace("*", ".*"): every '.' of the entry
\* becomes an escaped (literal) dot, then every '*' becomes ".*"; the other
\* characters of an entity id are literals of the regex.
GlobToRegex(pattern) ==
    [i \in 1..Len(pattern) |->
        IF pattern[i] = "*" THEN [kind |-> "anystar", c |-> "*"]
        ELSE [kind |-> "lit", c |-> pattern[i]]]

\* The regex tokens i.. match s from position j on; re.match anchors the
\* start only, so what follows the match in s is not looked at.
RECURSIVE ReMatchAt(_, _, _, _)
ReMatchAt(regex, i, s, j) ==
    IF i > Len(regex) THEN TRUE
    ELSE IF regex[i].kind = "anystar"
         THEN \E k \in j..(Len(s) + 1) : ReMatchAt(regex, i + 1, s, k)
         ELSE /\ j <= Len(s)
              /\ LowerChar(s[j]) = LowerChar(regex[i].c)
              /\ ReMatchAt(regex, i + 1, s, j + 1)

\* re.match(regex, s, re.IGNORECASE) is not None
ReMatch(regex, s) == ReMatchAt(regex, 1, s, 1)

-----------------------------------------------------------------------------
(* Strings of the inputs *)

w_sensor == <<"s","e","n","s","o","r">>
w_binary_sensor == <<"b","i","n","a","r","y","_","s","e","n","s","o","r">>
w_unknown == <<"u","n","k","n","o","w","n">>
w_unavailable == <<"u","n","a","v","a","i","l","a","b","l","e">>
w_on == <<"o","n">>
w_21_5 == <<"2","1",".","5">>
w_Temperature == <<"T","e","m","p","e","r","a","t","u","r","e">>
w_TEMPERATURE == <<"T","E","M","P","E","R","A","T","U","R","E">>
w_WeSense == <<"W","e","S","e","n","s","e">>
w_wesense == <<"w","e","s","e","n","s","e">>
w_MQTT == <<"M","Q","T","T">>
w_mqtt == <<"m","q","t","t">>
w_zha == <<"z","h","a">>

\* "sensor.t_temp"
idTemp == w_sensor \o <<".","t","_","t","e","m","p">>
\* "sensor.t_tempx": "*_temp" matches a prefix of it, not the whole id
idTempX == w_sensor \o <<".","t","_","t","e","m","p","x">>
\* "sensor.wesense_AB12cd34ef56_temp": carries a 12-hex-digit device MAC
idMac == w_sensor \o <<".">> \o w_wesense
         \o <<"_","A","B","1","2","c","d","3","4","e","f","5","6","_","t","e","m","p">>
\* "light.t_lamp": another domain; "t_" occurs inside it, not at its start
idLight == <<"l","i","g","h","t",".","t","_","l","a","m","p">>

EntityIds == {idTemp, idTempX, idMac, idLight}

\* "*_TEMP" and "t_*": include entries with a wildcard
globTemp == <<"*","_","T","E","M","P">>
globT == <<"t","_","*">>

HexClass == Digits \cup {"a","b","c","d","e","f"}
\* re.compile("[0-9a-f]{12}", re.IGNORECASE)
PatMac == [i \in 1..12 |-> HexClass]

StateValues == {Absent, w_unknown, w_unavailable, w_on, w_21_5}
DeviceClassValues == {Absent, None, w_Temperature}

-----------------------------------------------------------------------------
(* FilterConfig *)

BaseFilters ==
    [mode |-> "denylist",
     include_domains |-> {w_sensor, w_binary_sensor},
     include_device_classes |-> {},
     exclude_entity_patterns |-> <<PatMac>>,
     exclude_integrations |-> {},
     exclude_manufacturers |-> {},
     exclude_entities |-> {},
     include_entities |-> {}]

AllFilters ==
    [mode : {"denylist", "allowlist"},
     include_domains : {{w_sensor, w_binary_sensor}, {}},
     include_device_classes : {{}, {w_TEMPERATURE}},
     exclude_entity_patterns : {<<PatMac>>, <<>>},
     exclude_integrations : {{}, {w_MQTT}},
     exclude_manufacturers : {{}, {w_WeSense}},
     exclude_entities : {{}, {idTemp}},
     include_entities : {{}, {idTemp, idMac, idLight}, {globTemp, globT}}]

FilterFields ==
    {"mode", "include_domains", "include_device_classes", "exclude_entity_patterns",
     "exclude_integrations", "exclude_manufacturers", "exclude_entities",
     "include_entities"}

\* The number of settings in which a filter configuration departs from BaseFilters
Deviations(f) == Cardinality({k \in FilterFields : f[k] # BaseFilters[k]})

\* The filter configurations of the model: at most MaxDeviations settings changed
MaxDeviations == 2
FilterConfigs == {f \in AllFilters : Deviations(f) <= MaxDeviations}

-----------------------------------------------------------------------------
(* EntityMetadata *)

NoEntry == [device_id |-> Absent, platform |-> Absent, area_id |-> Absent]
NoDevice == [manufacturer |-> Absent, model |-> Absent, area_id |-> Absent]
NoArea == [name |-> Absent]

\* EntityMetadata(): three empty registries
EmptyMetadata ==
    [present |-> TRUE,
     entities |-> [e \in {} |-> NoEntry],
     devices |-> [d \in {} |-> NoDevice],
     areas |-> [a \in {} |-> NoArea]]

\* metadata=None of EntityFilter.__init__
NoMetadata == [EmptyMetadata EXCEPT !.present = FALSE]

dev1 == <<"d","1">>
dev2 == <<"d","2">>
area1 == <<"a","1">>

\* A registry snapshot of the hub. The device registry of a hub carries
\* "manufacturer": null for devices without one; idLight has no device and a
\* null platform; idMac is in no registry.
Snapshot1 ==
    [entities |->
        [e \in {idTemp, idTempX, idLight} |->
            CASE e = idTemp -> [device_id |-> dev1, platform |-> w_mqtt, area_id |-> None]
              [] e = idTempX -> [device_id |-> dev2, platform |-> w_zha, area_id |-> area1]
              [] e = idLight -> [device_id |-> None, platform |-> None, area_id |-> None]],
     devices |->
        [d \in {dev1, dev2} |->
            CASE d = dev1 -> [manufacturer |-> w_WeSense, model |-> <<"m","1">>,
                              area_id |-> area1]
              [] d = dev2 -> [manufacturer |-> None, model |-> None, area_id |-> None]],
     areas |-> [a \in {area1} |-> [name |-> <<"L","a","b">>]]]

\* The registries of the hub after idTempX, its device and the area were
\* removed
Snapshot2 ==
    [entities |-> [e \in {idTemp, idLight} |-> Snapshot1.entities[e]],
     devices |-> [d \in {dev1} |-> [Snapshot1.devices[d] EXCEPT !.area_id = None]],
     areas |-> [a \in {} |-> NoArea]]

\* The registries the hub serves on a connection
Registry(name) == IF name = "Snapshot2" THEN Snapshot2 ELSE Snapshot1

LoadedMetadata(snap) ==
    [present |-> TRUE, entities |-> snap.entities, devices |-> snap.devices,
     areas |-> snap.areas]

\* EntityMetadata.get_entity_info
get_entity_info(meta, entity_id) ==
    LET entity == IF entity_id \in DOMAIN meta.entities THEN meta.entities[entity_id]
                  ELSE NoEntry
        device_id == DictGet(entity.device_id, None)
        device == IF Truthy(device_id) /\ device_id \in DOMAIN meta.devices
                  THEN meta.devices[device_id] ELSE NoDevice
        area_id == IF Truthy(entity.area_id) THEN entity.area_id
                   ELSE DictGet(device.area_id, None)
        area == IF Truthy(area_id) /\ area_id \in DOMAIN meta.areas
                THEN meta.areas[area_id] ELSE NoArea
    IN [entity_id |-> entity_id,
        platform |-> DictGet(entity.platform, <<>>),
        device_id |-> device_id,
        manufacturer |-> DictGet(device.manufacturer, <<>>),
        model |-> DictGet(device.model, <<>>),
        area_name |-> DictGet(area.name, <<>>)]

-----------------------------------------------------------------------------
(* EntityFilter *)

\* The outcome of a call: it returned ret, or it raised an exception
Ret(b) == [exc |-> FALSE, ret |-> b]
Raised == [exc |-> TRUE, ret |-> FALSE]

\* EntityFilter.__init__: the sets lowercased at construction
_include_device_classes(f) == {LowerStr(dc) : dc \in f.include_device_classes}
_exclude_integrations(f) == {LowerStr(i) : i \in f.exclude_integrations}
_exclude_manufacturers(f) == {LowerStr(m) : m \in f.exclude_manufacturers}

\* _matches_include_list: exact membership, then every entry with a '*' as a
\* regex given to re.match; re.match(regex, None) raises TypeError.
_matches_include_list(f, entity_id) ==
    IF entity_id \in f.include_entities THEN Ret(TRUE)
    ELSE LET globs == {p \in f.include_entities : Contains(p, <<"*">>)}
         IN IF globs = {} THEN Ret(FALSE)
            ELSE IF entity_id = None THEN Raised
            ELSE Ret(\E p \in globs : ReMatch(GlobToRegex(p), entity_id))

\* included_entity_decision without the float() check
included_entity_decision_no_float(state) ==
    LET state_value == DictGet(state.state, None)
    IN Ret(state_value \notin {w_unknown, w_unavailable, None})

\* Step 0: an explicitly included entity is decided by its state alone
included_entity_decision(state) ==
    LET state_value == DictGet(state.state, None)
    IN IF state_value \in {w_unknown, w_unavailable, None} THEN Ret(FALSE)
       ELSE Ret(ParsesAsFloat(state_value))

\* Steps 7 and 8: state validity, then float(state_value)
check_state(state) ==
    LET state_value == DictGet(state.state, None)
    IN IF state_value \in {w_unknown, w_unavailable, None} THEN Ret(FALSE)
       ELSE IF ~ParsesAsFloat(state_value) THEN Ret(FALSE)
       ELSE Ret(TRUE)

\* Step 6: attributes.get("device_class", "").lower() raises AttributeError
\* when the attribute is present and null
check_device_class(f, state) ==
    LET raw == DictGet(state.attributes.device_class, <<>>)
    IN IF raw = None THEN Raised
       ELSE LET device_class == LowerStr(raw)
            IN IF /\ _include_device_classes(f) # {}
                  /\ (device_class = <<>> \/ device_class \notin _include_device_classes(f))
               THEN Ret(FALSE)
               ELSE check_state(state)

\* Step 5: '"." in entity_id' raises TypeError when the entity id is None
check_domain(f, entity_id, state) ==
    IF entity_id = None THEN Raised
    ELSE LET domain == IF Contains(entity_id, <<".">>) THEN BeforeFirstDot(entity_id)
                       ELSE <<>>
         IN IF f.include_domains # {} /\ domain \notin f.include_domains
            THEN Ret(FALSE)
            ELSE check_device_class(f, state)

\* Steps 3 and 4: entity_info.get("manufacturer", "").lower() and
\* entity_info.get("platform", "").lower(); get_entity_info always sets both
\* keys, so a null registry field reaches .lower() and raises AttributeError
check_metadata(f, meta, entity_id, state) ==
    IF ~meta.present THEN check_domain(f, entity_id, state)
    ELSE LET entity_info == get_entity_info(meta, entity_id)
         IN IF entity_info.manufacturer = None THEN Raised
            ELSE IF /\ LowerStr(entity_info.manufacturer) # <<>>
                    /\ LowerStr(entity_info.manufacturer) \in _exclude_manufacturers(f)
                 THEN Ret(FALSE)
            ELSE IF entity_info.platform = None THEN Raised
            ELSE IF /\ LowerStr(entity_info.platform) # <<>>
                    /\ LowerStr(entity_info.platform) \in _exclude_integrations(f)
                 THEN Ret(FALSE)
            ELSE check_domain(f, entity_id, state)

\* check_patterns with the pattern loop left out
check_patterns_skipped(f, meta, entity_id, state) ==
    check_metadata(f, meta, entity_id, state)

\* Step 2: pattern.search(entity_id) for each compiled pattern in turn;
\* pattern.search(None) raises TypeError
check_patterns(f, meta, entity_id, state) ==
    LET patterns == f.exclude_entity_patterns
    IN IF patterns # <<>> /\ entity_id = None THEN Raised
       ELSE IF \E k \in 1..Len(patterns) : PatternSearch(patterns[k], entity_id)
            THEN Ret(FALSE)
            ELSE check_metadata(f, meta, entity_id, state)

\* check_exclude_entities with the membership test left out
check_exclude_entities_skipped(f, meta, entity_id, state) ==
    check_patterns(f, meta, entity_id, state)

\* Step 1: explicit entity exclusion
check_exclude_entities(f, meta, entity_id, state) ==
    IF entity_id \in f.exclude_entities THEN Ret(FALSE)
    ELSE check_patterns(f, meta, entity_id, state)

\* _evaluate_filters with the exclude patterns tested before the mode
_evaluate_filters_patterns_first(f, meta, entity_id, state) ==
    IF /\ entity_id # None
       /\ \E k \in 1..Len(f.exclude_entity_patterns) :
             PatternSearch(f.exclude_entity_patterns[k], entity_id)
    THEN Ret(FALSE)
    ELSE IF f.mode = "allowlist" THEN _matches_include_list(f, entity_id)
    ELSE IF entity_id \in f.include_entities THEN included_entity_decision(state)
    ELSE check_exclude_entities(f, meta, entity_id, state)

\* EntityFilter._evaluate_filters
_evaluate_filters(f, meta, entity_id, state) ==
    IF f.mode = "allowlist" THEN _matches_include_list(f, entity_id)
    ELSE IF entity_id \in f.include_entities THEN included_entity_decision(state)
    ELSE check_exclude_entities(f, meta, entity_id, state)

\* should_ingest that evaluates the filters on every call
should_ingest_uncached(f, meta, cache, entity_id, state) ==
    LET decision == _evaluate_filters(f, meta, entity_id, state)
    IN IF decision.exc
       THEN [exc |-> TRUE, ret |-> FALSE, hit |-> FALSE, cache |-> cache]
       ELSE [exc |-> FALSE, ret |-> decision.ret, hit |-> entity_id \in DOMAIN cache,
             cache |-> [x \in DOMAIN cache \cup {entity_id} |->
                           IF x = entity_id THEN decision.ret ELSE cache[x]]]

\* EntityFilter.should_ingest: the cached decision if there is one, else the
\* evaluation, which is cached unless it raised. The result carries the cache
\* after the call.
should_ingest(f, meta, cache, entity_id, state) ==
    IF entity_id \in DOMAIN cache
    THEN [exc |-> FALSE, ret |-> cache[entity_id], hit |-> TRUE, cache |-> cache]
    ELSE LET decision == _evaluate_filters(f, meta, entity_id, state)
         IN IF decision.exc
            THEN [exc |-> TRUE, ret |-> FALSE, hit |-> FALSE, cache |-> cache]
            ELSE [exc |-> FALSE, ret |-> decision.ret, hit |-> FALSE,
                  cache |-> [x \in DOMAIN cache \cup {entity_id} |->
                                IF x = entity_id THEN decision.ret ELSE cache[x]]]

\* EntityFilter.invalidate_cache: one entry for a truthy argument, all otherwise
invalidate_cache(cache, entity_id) ==
    IF Truthy(entity_id)
    THEN [x \in DOMAIN cache \ {entity_id} |-> cache[x]]
    ELSE [x \in {} |-> FALSE]

-----------------------------------------------------------------------------
(* Hub state dicts *)

\* A state dict of the hub: the state value, the attributes and the three
\* timestamps, each of which may be missing
StateDict(value, device_class, unit, last_changed) ==
    [state |-> value,
     attributes |-> [device_class |-> device_class, unit_of_measurement |-> unit,
                     latitude |-> Absent, longitude |-> Absent, altitude |-> Absent,
                     friendly_name |-> Absent],
     last_reported |-> Absent,
     last_changed |-> last_changed,
     last_updated |-> Absent]

\* The state dict with "latitude", "longitude" and "altitude" attributes
WithCoordinates(state, latitude, longitude, altitude) ==
    [state EXCEPT !.attributes.latitude = latitude,
                  !.attributes.longitude = longitude,
                  !.attributes.altitude = altitude]

\* The state dicts given to the filter
FilterStates ==
    {StateDict(v, dc, Absent, Absent) : v \in StateValues, dc \in DeviceClassValues}

NoCall ==
    [op |-> "none", entity_id |-> None, state |-> StateDict(Absent, Absent, Absent, Absent),
     hit |-> FALSE, exc |-> FALSE, ret |-> FALSE, n |-> 0]

EmptyCache == [x \in {} |-> FALSE]

ZeroStats ==
    [state_changes_received |-> 0, entities_filtered |-> 0, entities_processed |-> 0,
     transform_failures |-> 0, future_timestamps |-> 0, missing_location |-> 0,
     publish_failures |-> 0]

\* The first decision returned for entity_id since the last invalidation
NoteFirst(f, entity_id, r) ==
    IF r.exc \/ entity_id \in DOMAIN f THEN f
    ELSE [x \in DOMAIN f \cup {entity_id} |-> IF x = entity_id THEN r.ret ELSE f[x]]

-----------------------------------------------------------------------------
(* Reading types (src/src/utils/reading_types.py) *)

\* The characters outside ASCII are the one-element strings "deg", "mu", "cube".

\* HA_TO_WESENSE_READING_TYPE: device class -> reading type
HA_TO_WESENSE_READING_TYPE ==
    <<      <<<<"t","e","m","p","e","r","a","t","u","r","e">>,
        <<"t","e","m","p","e","r","a","t","u","r","e">>>>,
      <<<<"h","u","m","i","d","i","t","y">>,
        <<"h","u","m","i","d","i","t","y">>>>,
      <<<<"p","r","e","s","s","u","r","e">>,
        <<"p","r","e","s","s","u","r","e">>>>,
      <<<<"a","t","m","o","s","p","h","e","r","i","c","_","p","r","e","s","s","u","r","e">>,
        <<"p","r","e","s","s","u","r","e">>>>,
      <<<<"c","a","r","b","o","n","_","d","i","o","x","i","d","e">>,
        <<"c","o","2">>>>,
      <<<<"c","a","r","b","o","n","_","m","o","n","o","x","i","d","e">>,
        <<"c","o">>>>,
      <<<<"p","m","1">>,
        <<"p","m","1","_","0">>>>,
      <<<<"p","m","1","0">>,
        <<"p","m","1","0">>>>,
      <<<<"p","m","2","5">>,
        <<"p","m","2","_","5">>>>,
      <<<<"v","o","l","a","t","i","l","e","_","o","r","g","a","n","i","c","_","c","o","m","p","o","u","n","d","s">>,
        <<"v","o","c">>>>,
      <<<<"n","i","t","r","o","g","e","n","_","d","i","o","x","i","d","e">>,
        <<"n","o","2">>>>,
      <<<<"o","z","o","n","e">>,
        <<"o","3">>>>,
      <<<<"a","q","i">>,
        <<"a","q","i">>>>,
      <<<<"s","u","l","p","h","u","r","_","d","i","o","x","i","d","e">>,
        <<"s","o","2">>>>,
      <<<<"i","l","l","u","m","i","n","a","n","c","e">>,
        <<"l","i","g","h","t","_","l","e","v","e","l">>>>,
      <<<<"b","a","t","t","e","r","y">>,
        <<"b","a","t","t","e","r","y","_","l","e","v","e","l">>>>,
      <<<<"v","o","l","t","a","g","e">>,
        <<"v","o","l","t","a","g","e">>>>,
      <<<<"c","u","r","r","e","n","t">>,
        <<"c","u","r","r","e","n","t">>>>,
      <<<<"p","o","w","e","r">>,
        <<"p","o","w","e","r">>>>,
      <<<<"e","n","e","r","g","y">>,
        <<"e","n","e","r","g","y">>>>,
      <<<<"s","o","u","n","d","_","p","r","e","s","s","u","r","e">>,
        <<"s","o","u","n","d","_","l","e","v","e","l">>>>,
      <<<<"s","i","g","n","a","l","_","s","t","r","e","n","g","t","h">>,
        <<"r","s","s","i">>>>,
      <<<<"d","i","s","t","a","n","c","e">>,
        <<"d","i","s","t","a","n","c","e">>>>,
      <<<<"s","p","e","e","d">>,
        <<"s","p","e","e","d">>>>,
      <<<<"w","i","n","d","_","s","p","e","e","d">>,
        <<"w","i","n","d","_","s","p","e","e","d">>>>,
      <<<<"p","r","e","c","i","p","i","t","a","t","i","o","n">>,
        <<"p","r","e","c","i","p","i","t","a","t","i","o","n">>>>,
      <<<<"p","r","e","c","i","p","i","t","a","t","i","o","n","_","i","n","t","e","n","s","i","t","y">>,
        <<"p","r","e","c","i","p","i","t","a","t","i","o","n","_","i","n","t","e","n","s","i","t","y">>>> >>

\* READING_UNITS: reading type -> standard unit
READING_UNITS ==
    <<      <<<<"t","e","m","p","e","r","a","t","u","r","e">>,
        <<"deg","C">>>>,
      <<<<"h","u","m","i","d","i","t","y">>,
        <<"%">>>>,
      <<<<"p","r","e","s","s","u","r","e">>,
        <<"h","P","a">>>>,
      <<<<"c","o","2">>,
        <<"p","p","m">>>>,
      <<<<"c","o">>,
        <<"p","p","m">>>>,
      <<<<"p","m","1","_","0">>,
        <<"mu","g","/","m","cube">>>>,
      <<<<"p","m","2","_","5">>,
        <<"mu","g","/","m","cube">>>>,
      <<<<"p","m","1","0">>,
        <<"mu","g","/","m","cube">>>>,
      <<<<"v","o","c">>,
        <<"i","n","d","e","x">>>>,
      <<<<"n","o","2">>,
        <<"p","p","b">>>>,
      <<<<"o","3">>,
        <<"p","p","b">>>>,
      <<<<"s","o","2">>,
        <<"p","p","b">>>>,
      <<<<"a","q","i">>,
        <<"i","n","d","e","x">>>>,
      <<<<"l","i","g","h","t","_","l","e","v","e","l">>,
        <<"l","u","x">>>>,
      <<<<"b","a","t","t","e","r","y","_","l","e","v","e","l">>,
        <<"%">>>>,
      <<<<"v","o","l","t","a","g","e">>,
        <<"V">>>>,
      <<<<"c","u","r","r","e","n","t">>,
        <<"A">>>>,
      <<<<"p","o","w","e","r">>,
        <<"W">>>>,
      <<<<"e","n","e","r","g","y">>,
        <<"k","W","h">>>>,
      <<<<"s","o","u","n","d","_","l","e","v","e","l">>,
        <<"d","B">>>>,
      <<<<"r","s","s","i">>,
        <<"d","B","m">>>>,
      <<<<"d","i","s","t","a","n","c","e">>,
        <<"m">>>>,
      <<<<"s","p","e","e","d">>,
        <<"m","/","s">>>>,
      <<<<"w","i","n","d","_","s","p","e","e","d">>,
        <<"m","/","s">>>>,
      <<<<"p","r","e","c","i","p","i","t","a","t","i","o","n">>,
        <<"m","m">>>>,
      <<<<"p","r","e","c","i","p","i","t","a","t","i","o","n","_","i","n","t","e","n","s","i","t","y">>,
        <<"m","m","/","h">>>> >>

\* id_patterns of _infer_reading_type, in the order of the dict
id_patterns ==
    <<      <<<<"t","e","m","p","e","r","a","t","u","r","e">>,
        <<"t","e","m","p","e","r","a","t","u","r","e">>>>,
      <<<<"t","e","m","p">>,
        <<"t","e","m","p","e","r","a","t","u","r","e">>>>,
      <<<<"h","u","m","i","d","i","t","y">>,
        <<"h","u","m","i","d","i","t","y">>>>,
      <<<<"p","r","e","s","s","u","r","e">>,
        <<"p","r","e","s","s","u","r","e">>>>,
      <<<<"c","o","2">>,
        <<"c","o","2">>>>,
      <<<<"c","a","r","b","o","n","_","d","i","o","x","i","d","e">>,
        <<"c","o","2">>>>,
      <<<<"p","m","2","_","5">>,
        <<"p","m","2","_","5">>>>,
      <<<<"p","m","2","5">>,
        <<"p","m","2","_","5">>>>,
      <<<<"p","m","1","0">>,
        <<"p","m","1","0">>>>,
      <<<<"p","m","1">>,
        <<"p","m","1","_","0">>>>,
      <<<<"v","o","c">>,
        <<"v","o","c">>>>,
      <<<<"i","l","l","u","m","i","n","a","n","c","e">>,
        <<"l","i","g","h","t","_","l","e","v","e","l">>>>,
      <<<<"l","u","x">>,
        <<"l","i","g","h","t","_","l","e","v","e","l">>>>,
      <<<<"b","a","t","t","e","r","y">>,
        <<"b","a","t","t","e","r","y","_","l","e","v","e","l">>>>,
      <<<<"v","o","l","t","a","g","e">>,
        <<"v","o","l","t","a","g","e">>>>,
      <<<<"p","o","w","e","r">>,
        <<"p","o","w","e","r">>>>,
      <<<<"e","n","e","r","g","y">>,
        <<"e","n","e","r","g","y">>>> >>

\* unit_patterns of _infer_reading_type, in the order of the dict
unit_patterns ==
    <<      <<<<"deg","c">>,
        <<"t","e","m","p","e","r","a","t","u","r","e">>>>,
      <<<<"deg","f">>,
        <<"t","e","m","p","e","r","a","t","u","r","e">>>>,
      <<<<"%">>,
        <<"h","u","m","i","d","i","t","y">>>>,
      <<<<"h","p","a">>,
        <<"p","r","e","s","s","u","r","e">>>>,
      <<<<"m","b","a","r">>,
        <<"p","r","e","s","s","u","r","e">>>>,
      <<<<"p","p","m">>,
        <<"c","o","2">>>>,
      <<<<"mu","g","/","m","cube">>,
        <<"p","m","2","_","5">>>>,
      <<<<"l","u","x">>,
        <<"l","i","g","h","t","_","l","e","v","e","l">>>>,
      <<<<"v">>,
        <<"v","o","l","t","a","g","e">>>>,
      <<<<"w">>,
        <<"p","o","w","e","r">>>>,
      <<<<"k","w","h">>,
        <<"e","n","e","r","g","y">>>> >>

\* table.get(key): the value of the entry whose key is key, or None
TableGet(table, key) ==
    IF \E i \in 1..Len(table) : table[i][1] = key
    THEN table[CHOOSE i \in 1..Len(table) : table[i][1] = key][2]
    ELSE None

\* The value of the first entry of an ordered table whose key occurs in s, or None
FirstContained(table, s) ==
    IF \E i \in 1..Len(table) : Contains(s, table[i][1])
    THEN table[CHOOSE i \in 1..Len(table) :
                  /\ Contains(s, table[i][1])
                  /\ \A k \in 1..(i - 1) : ~Contains(s, table[k][1])][2]
    ELSE None

\* get_wesense_reading_type
get_wesense_reading_type(ha_device_class) ==
    IF ~Truthy(ha_device_class) THEN None
    ELSE TableGet(HA_TO_WESENSE_READING_TYPE, LowerStr(ha_device_class))

\* get_standard_unit
get_standard_unit(reading_type) ==
    LET u == TableGet(READING_UNITS, reading_type) IN IF u = None THEN <<>> ELSE u

-----------------------------------------------------------------------------
(* Numbers: a float is the rational it stands for, <<numerator, denominator>> *)
(* in lowest terms with a positive denominator                              *)

RECURSIVE GCD(_, _)
GCD(a, b) == IF b = 0 THEN a ELSE GCD(b, a % b)

Abs(n) == IF n < 0 THEN -n ELSE n

Rat(n, d) ==
    LET g == GCD(Abs(n), Abs(d))
        sign == IF d < 0 THEN -1 ELSE 1
    IN <<sign * (n \div g), sign * (d \div g)>>

RatAdd(x, y) == Rat(x[1] * y[2] + y[1] * x[2], x[2] * y[2])
RatMul(x, y) ==
    LET g1 == GCD(Abs(x[1]), y[2])
        g2 == GCD(Abs(y[1]), x[2])
    IN Rat((x[1] \div g1) * (y[1] \div g2), (x[2] \div g2) * (y[2] \div g1))

\* abs(x - y) <= 1/1000
RatClose(x, y) == Abs(x[1] * y[2] - y[1] * x[2]) * 1000 <= x[2] * y[2]

\* round(x, 4), halves to the even neighbour
Round4(x) ==
    LET scaled == (x[1] % x[2]) * 10000
        q == (x[1] \div x[2]) * 10000 + scaled \div x[2]
        r == scaled % x[2]
        up == 2 * r > x[2] \/ (2 * r = x[2] /\ q % 2 = 1)
    IN Rat(IF up THEN q + 1 ELSE q, 10000)

-----------------------------------------------------------------------------
(* Unit conversions (src/src/utils/reading_types.py) *)

\* UNIT_CONVERSIONS: (from, to) -> lambda x: (x + add) * mul
UNIT_CONVERSIONS ==
    <<
      [from |-> <<"deg","F">>, to |-> <<"deg","C">>,
       add |-> <<-32, 1>>, mul |-> <<5, 9>>],
      [from |-> <<"K">>, to |-> <<"deg","C">>,
       add |-> <<-5463, 20>>, mul |-> <<1, 1>>],
      [from |-> <<"m","b","a","r">>, to |-> <<"h","P","a">>,
       add |-> <<0, 1>>, mul |-> <<1, 1>>],
      [from |-> <<"i","n","H","g">>, to |-> <<"h","P","a">>,
       add |-> <<0, 1>>, mul |-> <<338639, 10000>>],
      [from |-> <<"m","m","H","g">>, to |-> <<"h","P","a">>,
       add |-> <<0, 1>>, mul |-> <<66661, 50000>>],
      [from |-> <<"p","s","i">>, to |-> <<"h","P","a">>,
       add |-> <<0, 1>>, mul |-> <<172369, 2500>>],
      [from |-> <<"P","a">>, to |-> <<"h","P","a">>,
       add |-> <<0, 1>>, mul |-> <<1, 100>>],
      [from |-> <<"k","P","a">>, to |-> <<"h","P","a">>,
       add |-> <<0, 1>>, mul |-> <<10, 1>>],
      [from |-> <<"W","h">>, to |-> <<"k","W","h">>,
       add |-> <<0, 1>>, mul |-> <<1, 1000>>],
      [from |-> <<"M","W","h">>, to |-> <<"k","W","h">>,
       add |-> <<0, 1>>, mul |-> <<1000, 1>>],
      [from |-> <<"c","m">>, to |-> <<"m">>,
       add |-> <<0, 1>>, mul |-> <<1, 100>>],
      [from |-> <<"m","m">>, to |-> <<"m">>,
       add |-> <<0, 1>>, mul |-> <<1, 1000>>],
      [from |-> <<"k","m">>, to |-> <<"m">>,
       add |-> <<0, 1>>, mul |-> <<1000, 1>>],
      [from |-> <<"f","t">>, to |-> <<"m">>,
       add |-> <<0, 1>>, mul |-> <<381, 1250>>],
      [from |-> <<"i","n">>, to |-> <<"m">>,
       add |-> <<0, 1>>, mul |-> <<127, 5000>>],
      [from |-> <<"m","i">>, to |-> <<"m">>,
       add |-> <<0, 1>>, mul |-> <<80467, 50>>],
      [from |-> <<"k","m","/","h">>, to |-> <<"m","/","s">>,
       add |-> <<0, 1>>, mul |-> <<5, 18>>],
      [from |-> <<"m","p","h">>, to |-> <<"m","/","s">>,
       add |-> <<0, 1>>, mul |-> <<1397, 3125>>],
      [from |-> <<"k","n">>, to |-> <<"m","/","s">>,
       add |-> <<0, 1>>, mul |-> <<128611, 250000>>],
      [from |-> <<"f","t","/","s">>, to |-> <<"m","/","s">>,
       add |-> <<0, 1>>, mul |-> <<381, 1250>>] >>

\* The registered pairs
RegisteredPairs == {<<UNIT_CONVERSIONS[i].from, UNIT_CONVERSIONS[i].to>> :
                       i \in 1..Len(UNIT_CONVERSIONS)}

\* A convert_unit that gives 0 when no conversion is registered
convert_unit_or_zero(value, from_unit, to_unit) ==
    IF from_unit = to_unit THEN value
    ELSE IF <<from_unit, to_unit>> \in RegisteredPairs
    THEN LET c == UNIT_CONVERSIONS[CHOOSE i \in 1..Len(UNIT_CONVERSIONS) :
                     /\ UNIT_CONVERSIONS[i].from = from_unit
                     /\ UNIT_CONVERSIONS[i].to = to_unit]
         IN RatMul(RatAdd(value, c.add), c.mul)
    ELSE <<0, 1>>

\* convert_unit
convert_unit(value, from_unit, to_unit) ==
    IF from_unit = to_unit THEN value
    ELSE IF <<from_unit, to_unit>> \in RegisteredPairs
    THEN LET c == UNIT_CONVERSIONS[CHOOSE i \in 1..Len(UNIT_CONVERSIONS) :
                     /\ UNIT_CONVERSIONS[i].from = from_unit
                     /\ UNIT_CONVERSIONS[i].to = to_unit]
         IN RatMul(RatAdd(value, c.add), c.mul)
    ELSE value

-----------------------------------------------------------------------------
(* Transformer *)

DigitSeq == <<"0","1","2","3","4","5","6","7","8","9">>
DigitValue(c) == (CHOOSE n \in 1..10 : DigitSeq[n] = c) - 1

RECURSIVE DecimalValue(_, _)
DecimalValue(s, n) ==
    IF n = 0 THEN 0 ELSE 10 * DecimalValue(s, n - 1) + DigitValue(s[n])

\* A timestamp string of the hub is represented by its epoch second written
\* in decimal digits; date_parser.parse raises ValueError on any other text.
TimestampParses(s) == Len(s) > 0 /\ \A i \in 1..Len(s) : s[i] \in Digits

\* Transformer._parse_timestamp
_parse_timestamp(timestamp_str, now) ==
    IF ~Truthy(timestamp_str) THEN now
    ELSE IF TimestampParses(timestamp_str)
         THEN DecimalValue(timestamp_str, Len(timestamp_str))
         ELSE now

\* state.get("last_reported") or state.get("last_changed") or state.get("last_updated")
timestamp_str(state) ==
    IF Truthy(state.last_reported) THEN state.last_reported
    ELSE IF Truthy(state.last_changed) THEN state.last_changed
    ELSE DictGet(state.last_updated, None)

\* Transformer._infer_reading_type: None.lower() raises for a null entity id
\* and for a null unit_of_measurement
_infer_reading_type(entity_id, attributes) ==
    IF entity_id = None THEN [exc |-> TRUE, value |-> None]
    ELSE LET by_id == FirstContained(id_patterns, LowerStr(entity_id))
             unit == DictGet(attributes.unit_of_measurement, <<>>)
         IN IF by_id # None THEN [exc |-> FALSE, value |-> by_id]
            ELSE IF unit = None THEN [exc |-> TRUE, value |-> None]
            ELSE [exc |-> FALSE, value |-> FirstContained(unit_patterns, LowerStr(unit))]

RECURSIVE Pow10(_)
Pow10(k) == IF k = 0 THEN 1 ELSE 10 * Pow10(k - 1)

\* float(s) of a string float() accepts: the rational a decimal stands for;
\* nan and the infinities are themselves
FloatValue(s) ==
    LET signed == s[1] \in {"+", "-"}
        body == IF signed THEN Tail(s) ELSE s
        dots == {i \in 1..Len(body) : body[i] = "."}
        decimals == IF dots = {} THEN 0 ELSE Len(body) - (CHOOSE i \in dots : TRUE)
        digits == SelectSeq(body, LAMBDA c : c \in Digits)
        n == DecimalValue(digits, Len(digits))
    IN IF digits = <<>> THEN LowerStr(s)
       ELSE Rat(IF s[1] = "-" THEN -n ELSE n, Pow10(decimals))

\* nan or an infinity
Special(value) == Len(value) # 2

\* The coordinates of the runs are whole numbers, written as integers
WholeNumber(value) == value[1] \div value[2]

-----------------------------------------------------------------------------
(* Geocoding (src/src/utils/geocoding.py) *)

\* ADMIN1_TO_SUBDIVISION
ADMIN1_TO_SUBDIVISION ==
    <<
      [cc |-> <<"N","Z">>, admin1 |-> <<"E","7">>, code |-> <<"a","u","k">>],
      [cc |-> <<"N","Z">>, admin1 |-> <<"F","1">>, code |-> <<"w","g","n">>],
      [cc |-> <<"N","Z">>, admin1 |-> <<"F","3">>, code |-> <<"c","a","n">>],
      [cc |-> <<"N","Z">>, admin1 |-> <<"G","2">>, code |-> <<"o","t","a">>],
      [cc |-> <<"U","S">>, admin1 |-> <<"C","A">>, code |-> <<"c","a">>],
      [cc |-> <<"U","S">>, admin1 |-> <<"N","Y">>, code |-> <<"n","y">>],
      [cc |-> <<"U","S">>, admin1 |-> <<"T","X">>, code |-> <<"t","x">>],
      [cc |-> <<"U","S">>, admin1 |-> <<"W","A">>, code |-> <<"w","a">>],
      [cc |-> <<"A","U">>, admin1 |-> <<"0","2">>, code |-> <<"n","s","w">>],
      [cc |-> <<"A","U">>, admin1 |-> <<"0","7">>, code |-> <<"v","i","c">>],
      [cc |-> <<"A","U">>, admin1 |-> <<"0","4">>, code |-> <<"q","l","d">>],
      [cc |-> <<"G","B">>, admin1 |-> <<"E","N","G">>, code |-> <<"e","n","g">>],
      [cc |-> <<"G","B">>, admin1 |-> <<"S","C","T">>, code |-> <<"s","c","t">>],
      [cc |-> <<"G","B">>, admin1 |-> <<"W","L","S">>, code |-> <<"w","l","s">>] >>

\* What the reverse_geocoder package of the installation does on a search:
\* it is not installed, the search raises, it returns no result, or it
\* returns a place with its "cc" and "admin1"
NoGeocoder == [kind |-> "missing", cc |-> <<>>, admin1 |-> <<>>]
RaisingGeocoder == [kind |-> "raises", cc |-> <<>>, admin1 |-> <<>>]
EmptyGeocoder == [kind |-> "empty", cc |-> <<>>, admin1 |-> <<>>]
Place(cc, admin1) == [kind |-> "result", cc |-> cc, admin1 |-> admin1]

\* reverse_geocode: None (found = FALSE) or the codes of the place
reverse_geocode(rg) ==
    IF rg.kind # "result"
    THEN [found |-> FALSE, country_code |-> <<>>, subdivision_code |-> <<>>]
    ELSE LET hits == {i \in 1..Len(ADMIN1_TO_SUBDIVISION) :
                         /\ ADMIN1_TO_SUBDIVISION[i].cc = rg.cc
                         /\ ADMIN1_TO_SUBDIVISION[i].admin1 = rg.admin1}
         IN [found |-> TRUE,
             country_code |-> LowerStr(rg.cc),
             subdivision_code |->
                 IF hits # {} THEN ADMIN1_TO_SUBDIVISION[CHOOSE i \in hits : TRUE].code
                 ELSE Prefix3(LowerStr(rg.admin1))]

\* get_location_info
get_location_info(rg, default_country_code, default_subdivision_code) ==
    LET result == reverse_geocode(rg)
    IN IF result.found
       THEN [country_code |-> result.country_code,
             subdivision_code |-> result.subdivision_code]
       ELSE [country_code |-> default_country_code,
             subdivision_code |-> default_subdivision_code]

-----------------------------------------------------------------------------
(* Transformer, continued *)

\* A _get_location that knows the configured default only
_get_location_default_only(cfg, entity_id, attributes) ==
    [exc |-> FALSE, geocoded |-> FALSE,
     latitude |-> cfg.location.default.latitude,
     longitude |-> cfg.location.default.longitude,
     altitude |-> cfg.location.default.altitude,
     country_code |-> cfg.location.default.country_code,
     subdivision_code |-> cfg.location.default.subdivision_code,
     deployment_type |-> cfg.location.default.deployment_type]

\* Transformer._get_location. Altitudes are numbers written in decimal.
\* geocoded is whether get_location_info was called; exc is whether float()
\* raised on an attribute.
_get_location(cfg, entity_id, attributes) ==
    LET defaults == cfg.location.default
        geo == get_location_info(cfg.geocoder, defaults.country_code,
                                 defaults.subdivision_code)
    IN IF entity_id \in DOMAIN cfg.location.overrides
       THEN LET override == cfg.location.overrides[entity_id]
                alt == IF override.altitude # None THEN override.altitude
                       ELSE defaults.altitude
                deployment == IF Truthy(override.deployment_type)
                              THEN override.deployment_type
                              ELSE defaults.deployment_type
            IN IF Truthy(override.country_code) /\ Truthy(override.subdivision_code)
               THEN [exc |-> FALSE, geocoded |-> FALSE,
                     latitude |-> override.latitude, longitude |-> override.longitude,
                     altitude |-> alt,
                     country_code |-> override.country_code,
                     subdivision_code |-> override.subdivision_code,
                     deployment_type |-> deployment]
               ELSE [exc |-> FALSE, geocoded |-> TRUE,
                     latitude |-> override.latitude, longitude |-> override.longitude,
                     altitude |-> alt,
                     country_code |-> geo.country_code,
                     subdivision_code |-> geo.subdivision_code,
                     deployment_type |-> deployment]
       ELSE IF attributes.latitude # Absent /\ attributes.longitude # Absent
       THEN IF \/ ~ParsesAsFloat(attributes.latitude)
               \/ ~ParsesAsFloat(attributes.longitude)
               \/ ~ParsesAsFloat(DictGet(attributes.altitude, defaults.altitude))
            THEN [exc |-> TRUE, geocoded |-> FALSE,
                  latitude |-> 0, longitude |-> 0, altitude |-> <<>>,
                  country_code |-> <<>>, subdivision_code |-> <<>>,
                  deployment_type |-> <<>>]
            ELSE [exc |-> FALSE, geocoded |-> TRUE,
                  latitude |-> WholeNumber(FloatValue(attributes.latitude)),
                  longitude |-> WholeNumber(FloatValue(attributes.longitude)),
                  altitude |-> DictGet(attributes.altitude, defaults.altitude),
                  country_code |-> geo.country_code,
                  subdivision_code |-> geo.subdivision_code,
                  deployment_type |-> defaults.deployment_type]
       ELSE [exc |-> FALSE, geocoded |-> FALSE,
             latitude |-> defaults.latitude, longitude |-> defaults.longitude,
             altitude |-> defaults.altitude,
             country_code |-> defaults.country_code,
             subdivision_code |-> defaults.subdivision_code,
             deployment_type |-> defaults.deployment_type]

\* Transformer.node_name: "" of __init__, config.node_name after start()
\* when it is not empty
TransformerNodeName(cfg) == OrEmpty(cfg.node_name)

\* Transformer._get_node_name
_get_node_name(cfg, entity_id) ==
    IF /\ entity_id \in DOMAIN cfg.location.overrides
       /\ Truthy(cfg.location.overrides[entity_id].node_name)
    THEN cfg.location.overrides[entity_id].node_name
    ELSE TransformerNodeName(cfg)

w_ha_ == <<"h","a","_">>

\* A _build_device_id that always takes the suffix of the entity id
_build_device_id_from_entity(meta, entity_id, node_name) ==
    IF entity_id = None THEN [exc |-> TRUE, value |-> <<>>]
    ELSE [exc |-> FALSE,
          value |-> (IF Truthy(node_name) THEN sanitize(node_name) \o <<"_">>
                     ELSE w_ha_)
                    \o sanitize(IF Contains(entity_id, <<".">>)
                                THEN AfterFirstDot(entity_id) ELSE entity_id)]

\* Transformer._build_device_id: '"." in entity_id' raises for a null
\* entity id
_build_device_id(meta, entity_id, node_name) ==
    LET ha_device_id == IF meta.present THEN get_entity_info(meta, entity_id).device_id
                        ELSE None
        device_suffix ==
            IF Truthy(ha_device_id) THEN sanitize(ha_device_id)
            ELSE IF Contains(entity_id, <<".">>) THEN sanitize(AfterFirstDot(entity_id))
            ELSE sanitize(entity_id)
    IN IF ~Truthy(ha_device_id) /\ entity_id = None
       THEN [exc |-> TRUE, value |-> <<>>]
       ELSE [exc |-> FALSE,
             value |-> IF Truthy(node_name)
                       THEN sanitize(node_name) \o <<"_">> \o device_suffix
                       ELSE w_ha_ \o device_suffix]

\* {} of _get_device_info without metadata
NoInfo ==
    [entity_id |-> Absent, platform |-> Absent, device_id |-> Absent,
     manufacturer |-> Absent, model |-> Absent, area_name |-> Absent]

\* Transformer._get_device_location
_get_device_location(meta, entity_id) ==
    IF ~meta.present THEN <<>> ELSE DictGet(get_entity_info(meta, entity_id).area_name, <<>>)

\* Transformer._get_device_info
_get_device_info(meta, entity_id) ==
    IF ~meta.present THEN NoInfo ELSE get_entity_info(meta, entity_id)

wifi_platforms == {<<"s","h","e","l","l","y">>, <<"t","u","y","a">>, <<"w","i","z">>, <<"e","s","p","h","o","m","e">>, <<"t","a","s","m","o","t","a">>, <<"s","o","n","o","f","f">>}
zigbee_platforms == {<<"z","h","a">>, <<"z","i","g","b","e","e">>, <<"d","e","c","o","n","z">>, <<"z","i","g","b","e","e","2","m","q","t","t">>}
zwave_platforms == {<<"z","w","a","v","e">>, <<"o","z","w">>}
bt_platforms == {<<"b","l","u","e","t","o","o","t","h">>, <<"b","l","e">>, <<"s","w","i","t","c","h","b","o","t">>}
thread_platforms == {<<"m","a","t","t","e","r">>, <<"t","h","r","e","a","d">>}

w_UNKNOWN == <<"U","N","K","N","O","W","N">>
w_WIFI == <<"W","I","F","I">>
w_ZIGBEE == <<"Z","I","G","B","E","E">>
w_ZWAVE == <<"Z","W","A","V","E">>
w_BLUETOOTH == <<"B","L","U","E","T","O","O","T","H">>
w_THREAD == <<"T","H","R","E","A","D">>
w_INDOOR == <<"I","N","D","O","O","R">>
w_OUTDOOR == <<"O","U","T","D","O","O","R">>
w_MIXED == <<"M","I","X","E","D">>
w_HOMEASSISTANT == <<"H","O","M","E","A","S","S","I","S","T","A","N","T">>
w_SENSOR == <<"S","E","N","S","O","R">>

\* Transformer._infer_transport_type
_infer_transport_type(platform) ==
    LET platform_lower == LowerStr(platform)
        any(platforms) == \E p \in platforms : Contains(platform_lower, p)
    IN IF platform = <<>> THEN w_UNKNOWN
       ELSE IF any(wifi_platforms) THEN w_WIFI
       ELSE IF any(zigbee_platforms) THEN w_ZIGBEE
       ELSE IF any(zwave_platforms) THEN w_ZWAVE
       ELSE IF any(bt_platforms) THEN w_BLUETOOTH
       ELSE IF any(thread_platforms) THEN w_THREAD
       ELSE w_UNKNOWN

\* None of transform. A reading has ok = TRUE, the fields of the result dict
\* and, for the callers of the model, the entity id, reading type and unit
\* of its measurement.
NoReading ==
    [ok |-> FALSE, entity_id |-> None, reading_type |-> None, unit |-> <<>>,
     timestamp |-> 0, latitude |-> 0, longitude |-> 0,
     device_id |-> Absent, node_name |-> Absent, data_source |-> Absent,
     altitude |-> Absent, vendor |-> Absent, product_line |-> Absent,
     device_type |-> Absent, deployment_type |-> Absent, transport_type |-> Absent,
     measurements |-> <<>>, country_code |-> Absent, subdivision_code |-> Absent,
     device_location |-> Absent,
     _meta |-> [entity_id |-> Absent, friendly_name |-> Absent,
                device_class |-> Absent, original_unit |-> Absent]]

\* The statements of the try block of transform (lines 54-141) on the values
\* that its calls have returned: raised is whether a statement raised an
\* exception other than the ValueError and TypeError of float(state), built
\* is what the body had computed by then, and ret is what it returns when
\* nothing is raised
transform_try(entity_id, state, mapped, inferred, parsed, timestamp, location, node_name, device_id, device_location, device_info) ==
    LET attributes == state.attributes
        device_class == DictGet(attributes.device_class, <<>>)
        reading_type == IF mapped # None THEN mapped ELSE inferred.value
        ha_unit == DictGet(attributes.unit_of_measurement, <<>>)
        standard_unit == get_standard_unit(reading_type)
        value == IF /\ Truthy(ha_unit) /\ standard_unit # <<>> /\ ha_unit # standard_unit
                    /\ ~Special(parsed)
                 THEN convert_unit(parsed, ha_unit, standard_unit)
                 ELSE parsed
        platform == OrEmpty(device_info.platform)
        typed == [NoReading EXCEPT !.ok = TRUE, !.entity_id = entity_id,
                                   !.reading_type = reading_type,
                                   !.timestamp = timestamp]
    IN IF mapped = None /\ inferred.exc
       THEN [raised |-> TRUE, built |-> [NoReading EXCEPT !.ok = TRUE], ret |-> NoReading]
       ELSE IF reading_type = None
       THEN [raised |-> FALSE, built |-> NoReading, ret |-> NoReading]
       ELSE IF ~ParsesAsFloat(DictGet(state.state, None))
       THEN [raised |-> FALSE, built |-> NoReading, ret |-> NoReading]
       ELSE IF location.exc
       THEN [raised |-> TRUE, built |-> typed, ret |-> NoReading]
       ELSE IF device_id.exc
       THEN [raised |-> TRUE,
             built |-> [typed EXCEPT !.latitude = location.latitude,
                                     !.longitude = location.longitude],
             ret |-> NoReading]
       ELSE LET result ==
                    [ok |-> TRUE,
                     entity_id |-> entity_id,
                     reading_type |-> reading_type,
                     unit |-> IF standard_unit # <<>> THEN standard_unit ELSE ha_unit,
                     device_id |-> device_id.value,
                     node_name |-> node_name,
                     data_source |-> w_HOMEASSISTANT,
                     timestamp |-> timestamp,
                     latitude |-> location.latitude,
                     longitude |-> location.longitude,
                     altitude |-> location.altitude,
                     vendor |-> OrEmpty(device_info.manufacturer),
                     product_line |-> IF platform # <<>> THEN UpperStr(platform)
                                      ELSE w_HOMEASSISTANT,
                     device_type |-> w_SENSOR,
                     deployment_type |-> location.deployment_type,
                     transport_type |-> _infer_transport_type(platform),
                     measurements |->
                         <<[reading_type |-> reading_type,
                            reading_type_raw |-> UpperStr(reading_type),
                            value |-> IF Special(value) THEN value ELSE Round4(value),
                            unit |-> IF standard_unit # <<>> THEN standard_unit
                                     ELSE ha_unit,
                            sensor_model |-> OrEmpty(device_info.model),
                            timestamp |-> timestamp]>>,
                     country_code |-> location.country_code,
                     subdivision_code |-> location.subdivision_code,
                     device_location |-> device_location,
                     _meta |-> [entity_id |-> entity_id,
                                friendly_name |-> DictGet(attributes.friendly_name,
                                                          entity_id),
                                device_class |-> device_class,
                                original_unit |-> ha_unit]]
            IN [raised |-> FALSE, built |-> result, ret |-> result]

\* The body of the try block of transform, with the calls it makes
transform_body(cfg, meta, entity_id, state, now) ==
    transform_try(entity_id, state,
                  get_wesense_reading_type(DictGet(state.attributes.device_class, <<>>)),
                  _infer_reading_type(entity_id, state.attributes),
                  FloatValue(state.state),
                  _parse_timestamp(timestamp_str(state), now),
                  _get_location(cfg, entity_id, state.attributes),
                  _get_node_name(cfg, entity_id),
                  _build_device_id(meta, entity_id, _get_node_name(cfg, entity_id)),
                  _get_device_location(meta, entity_id),
                  _get_device_info(meta, entity_id))

\* A transform without the except clause that hands out what it has built
\* when a statement raises
transform_partial(cfg, meta, entity_id, state, now) ==
    LET body == transform_body(cfg, meta, entity_id, state, now)
    IN IF body.raised THEN body.built ELSE body.ret

\* The except clause of transform (lines 143-145) around the body
transform_except(body) == IF body.raised THEN NoReading ELSE body.ret

\* Transformer.transform: the reading, or NoReading for None. Every exception
\* raised on the way is caught and gives None.
transform(cfg, meta, entity_id, state, now) ==
    transform_except(transform_body(cfg, meta, entity_id, state, now))

-----------------------------------------------------------------------------
(* ClickHouseWriter (src/src/publishers/clickhouse_writer.py) *)

\* config.clickhouse.batch_size of the runs
batch_size == 2

\* FUTURE_TIMESTAMP_TOLERANCE of clickhouse_writer.py
WRITER_FUTURE_TIMESTAMP_TOLERANCE == 30

\* ClickHouseWriter.__init__: no client, an empty buffer, no row written. db
\* is the table of the database: the rows that an insert has written.
NewWriter ==
    [client |-> "none", buffer |-> <<>>, total_written |-> 0, db |-> <<>>,
     last |-> "none", dry_run |-> FALSE]

\* The writer HomeAssistantIngester.__init__ builds: in dry-run mode when
\* the configuration says dry_run or disable_clickhouse
WriterOf(cfg) == [NewWriter EXCEPT !.dry_run = cfg.dry_run \/ cfg.disable_clickhouse]

\* ClickHouseWriter.connect: the client on success, no client on failure,
\* and no connection at all in dry-run mode
connect(w, ok) ==
    IF w.dry_run THEN w
    ELSE IF ok THEN [w EXCEPT !.client = "open"] ELSE w

\* A flush that does not put the rows back when the insert raises
flush_drops_failed(w, insert_ok) ==
    LET rows_to_write == w.buffer
        cleared == [w EXCEPT !.buffer = <<>>]
    IN IF w.buffer = <<>> THEN [w EXCEPT !.last = "empty"]
       ELSE IF w.dry_run
       THEN [cleared EXCEPT !.total_written = @ + Len(rows_to_write), !.last = "dry"]
       ELSE IF w.client = "none" THEN [cleared EXCEPT !.last = "dropped"]
       ELSE IF insert_ok /\ w.client = "open"
            THEN [cleared EXCEPT !.db = @ \o rows_to_write,
                                 !.total_written = @ + Len(rows_to_write),
                                 !.last = "written"]
            ELSE [cleared EXCEPT !.last = "failed"]

\* ClickHouseWriter.flush; insert_ok is whether self._client.insert returns
\* (it raises otherwise, as it does on a closed client). last is the outcome:
\* "empty", "dry" (dry-run mode: the rows are logged), "dropped" (no
\* client), "written", or "failed" (the rows are put back in the buffer).
flush(w, insert_ok) ==
    LET rows_to_write == w.buffer
        cleared == [w EXCEPT !.buffer = <<>>]
    IN IF w.buffer = <<>> THEN [w EXCEPT !.last = "empty"]
       ELSE IF w.dry_run
       THEN [cleared EXCEPT !.total_written = @ + Len(rows_to_write), !.last = "dry"]
       ELSE IF w.client = "none" THEN [cleared EXCEPT !.last = "dropped"]
       ELSE IF insert_ok /\ w.client = "open"
            THEN [cleared EXCEPT !.db = @ \o rows_to_write,
                                 !.total_written = @ + Len(rows_to_write),
                                 !.last = "written"]
            ELSE [cleared EXCEPT !.buffer = @ \o rows_to_write, !.last = "failed"]

w_CONFIG == <<"C","O","N","F","I","G">>

\* ClickHouseWriter._transform_to_row: <<row>>, the row of the first
\* measurement, or <<>> for None when the reading has no measurement;
\* timestamp is the epoch second of the datetime
_transform_to_row(data) ==
    IF data.measurements = <<>> THEN <<>>
    ELSE LET measurement == data.measurements[1]
             meta == data._meta
         IN <<[timestamp |-> data.timestamp,
             device_id |-> data.device_id,
             data_source |-> DictGet(data.data_source, w_HOMEASSISTANT),
             network_source |-> w_HOMEASSISTANT,
             ingestion_node_id |-> DictGet(data.node_name, <<>>),
             reading_type |-> measurement.reading_type,
             value |-> measurement.value,
             unit |-> measurement.unit,
             latitude |-> data.latitude,
             longitude |-> data.longitude,
             altitude |-> DictGet(data.altitude, <<"0">>),
             geo_country |-> DictGet(data.country_code, <<>>),
             geo_subdivision |-> DictGet(data.subdivision_code, <<>>),
             board_model |-> DictGet(meta.device_class, <<>>),
             deployment_type |-> DictGet(data.deployment_type, w_INDOOR),
             transport_type |-> DictGet(data.transport_type, w_UNKNOWN),
             location_source |-> w_CONFIG,
             node_name |-> DictGet(data.node_name, <<>>)]>>

\* ClickHouseWriter.write on a transformed reading: its own future-timestamp
\* check, the row appended to the buffer, and a flush when the buffer holds
\* batch_size rows or the flush interval has passed (due)
write(w, data, now, due, insert_ok) ==
    IF data.timestamp - now > WRITER_FUTURE_TIMESTAMP_TOLERANCE
    THEN [w EXCEPT !.last = "refused"]
    ELSE LET row == _transform_to_row(data)
             buffered == [w EXCEPT !.buffer = IF row # <<>> THEN @ \o row ELSE @,
                                   !.last = "none"]
         IN IF Len(buffered.buffer) >= batch_size \/ due
            THEN flush(buffered, insert_ok)
            ELSE buffered

\* close that closes the connection without a flush
close_without_flush(w, insert_ok) ==
    IF w.client = "open" THEN [w EXCEPT !.client = "closed", !.last = "none"]
    ELSE [w EXCEPT !.last = "none"]

\* ClickHouseWriter.close: a flush when the buffer is not empty, then the
\* client, if there is one, is closed
close(w, insert_ok) ==
    LET flushed == IF w.buffer # <<>> THEN flush(w, insert_ok)
                   ELSE [w EXCEPT !.last = "empty"]
    IN IF flushed.client = "open" THEN [flushed EXCEPT !.client = "closed"]
       ELSE flushed

-----------------------------------------------------------------------------
(* HomeAssistantIngester *)

FUTURE_TIMESTAMP_TOLERANCE == 30

Bump(st, counter) == [st EXCEPT ![counter] = @ + 1]

\* What one call of _handle_state_change does: the stages it ran in order,
\* whether an exception left it, and the state it leaves behind.
Outcome(stages, raised, st, cache, reading, pub, wr) ==
    [stages |-> stages, raised |-> raised, stats |-> st, cache |-> cache,
     reading |-> reading, published |-> pub, written |-> wr]

\* The keys of a reading that start with '_'
InternalKeys == {"_meta"}

\* A payload that keeps every key of the reading
publish_data_keeps_all(data) == data

\* publish_data of MQTTPublisher.publish (line 86): a new dict with the keys
\* of data that do not start with '_'; data itself is not touched
publish_data(data) == [k \in DOMAIN data \ InternalKeys |-> data[k]]

\* publish_and_write that hands the reading to the writer only after a
\* successful publish
publish_and_write_blocked(st, cache, reading, publish_ok, pub, wr) ==
    IF publish_ok
    THEN Outcome(<<"admission", "transform", "future", "location", "publish", "write">>,
                 FALSE, Bump(st, "entities_processed"), cache, reading,
                 Append(pub, publish_data(reading)), Append(wr, reading))
    ELSE Outcome(<<"admission", "transform", "future", "location", "publish">>,
                 FALSE, Bump(Bump(st, "entities_processed"), "publish_failures"),
                 cache, reading, pub, wr)

\* The publish and the write of a reading that passed both guards:
\* publish_ok is what MQTTPublisher.publish returns
publish_and_write(st, cache, reading, publish_ok, pub, wr) ==
    Outcome(<<"admission", "transform", "future", "location", "publish", "write">>,
            FALSE,
            IF publish_ok THEN Bump(st, "entities_processed")
            ELSE Bump(Bump(st, "entities_processed"), "publish_failures"),
            cache, reading,
            IF publish_ok THEN Append(pub, publish_data(reading)) ELSE pub,
            Append(wr, reading))

\* guards whose null-location branch counts the reading and goes on
guards_location_falls_through(st, cache, reading, now, publish_ok, pub, wr) ==
    IF reading.timestamp - now > FUTURE_TIMESTAMP_TOLERANCE
    THEN Outcome(<<"admission", "transform", "future">>, FALSE,
                 Bump(st, "future_timestamps"), cache, reading, pub, wr)
    ELSE IF reading.latitude = 0 /\ reading.longitude = 0
    THEN publish_and_write(Bump(st, "missing_location"), cache, reading, publish_ok,
                           pub, wr)
    ELSE publish_and_write(st, cache, reading, publish_ok, pub, wr)

\* guards that reject a reading at the tolerance itself
guards_at_tolerance(st, cache, reading, now, publish_ok, pub, wr) ==
    IF reading.timestamp - now >= FUTURE_TIMESTAMP_TOLERANCE
    THEN Outcome(<<"admission", "transform", "future">>, FALSE,
                 Bump(st, "future_timestamps"), cache, reading, pub, wr)
    ELSE IF reading.latitude = 0 /\ reading.longitude = 0
    THEN Outcome(<<"admission", "transform", "future", "location">>, FALSE,
                 Bump(st, "missing_location"), cache, reading, pub, wr)
    ELSE publish_and_write(st, cache, reading, publish_ok, pub, wr)

\* guards that reject a reading when either coordinate is zero
guards_either_zero(st, cache, reading, now, publish_ok, pub, wr) ==
    IF reading.timestamp - now > FUTURE_TIMESTAMP_TOLERANCE
    THEN Outcome(<<"admission", "transform", "future">>, FALSE,
                 Bump(st, "future_timestamps"), cache, reading, pub, wr)
    ELSE IF reading.latitude = 0 \/ reading.longitude = 0
    THEN Outcome(<<"admission", "transform", "future", "location">>, FALSE,
                 Bump(st, "missing_location"), cache, reading, pub, wr)
    ELSE publish_and_write(st, cache, reading, publish_ok, pub, wr)

\* The two guards on a transformed reading
guards(st, cache, reading, now, publish_ok, pub, wr) ==
    IF reading.timestamp - now > FUTURE_TIMESTAMP_TOLERANCE
    THEN Outcome(<<"admission", "transform", "future">>, FALSE,
                 Bump(st, "future_timestamps"), cache, reading, pub, wr)
    ELSE IF reading.latitude = 0 /\ reading.longitude = 0
    THEN Outcome(<<"admission", "transform", "future", "location">>, FALSE,
                 Bump(st, "missing_location"), cache, reading, pub, wr)
    ELSE publish_and_write(st, cache, reading, publish_ok, pub, wr)

\* A publish that sends the message in dry-run mode too
publish_always_sends(dry_run, delivered) == [ret |-> delivered, sent |-> delivered]

\* MQTTPublisher.publish: what it returns (ret) and whether the message went
\* to the broker (sent); delivered is whether the client is connected and
\* the broker takes the message. In dry-run mode the message is logged.
publish(dry_run, delivered) ==
    IF dry_run THEN [ret |-> TRUE, sent |-> FALSE]
    ELSE [ret |-> delivered, sent |-> delivered]

\* The statements of HomeAssistantIngester._handle_state_change on the event
\* ev at time now, on what its calls have returned: r from the filter,
\* transformed from the transformer, p from the publisher. The published
\* readings of the outcome are those that went to the broker.
handle_outcome(st, cache, ev, now, pub, wr, r, transformed, p) ==
    LET guarded == guards(st, r.cache, transformed, now, p.ret, pub, wr)
    IN IF ~ev.has_new_state THEN Outcome(<<>>, FALSE, st, cache, NoReading, pub, wr)
       ELSE IF r.exc THEN Outcome(<<"admission">>, TRUE, st, cache, NoReading, pub, wr)
       ELSE IF ~r.ret
            THEN Outcome(<<"admission">>, FALSE, Bump(st, "entities_filtered"),
                         r.cache, NoReading, pub, wr)
       ELSE IF ~transformed.ok
            THEN Outcome(<<"admission", "transform">>, FALSE,
                         Bump(st, "transform_failures"), r.cache, NoReading, pub, wr)
       ELSE IF p.ret /\ ~p.sent THEN [guarded EXCEPT !.published = pub]
       ELSE guarded

\* _handle_state_change with the calls it makes: the filter, the transformer
\* and the publisher
_handle_state_change(cfg, meta, st0, cache, ev, now, publish_ok, pub, wr) ==
    handle_outcome(Bump(st0, "state_changes_received"), cache, ev, now, pub, wr,
                   should_ingest(cfg.filters, meta, cache, ev.entity_id, ev.new_state),
                   transform(cfg, meta, ev.entity_id, ev.new_state, now),
                   publish(cfg.dry_run, publish_ok))

-----------------------------------------------------------------------------
(* Configurations and events of the runs *)

\* location.default of the configuration: unset (0, 0), on the equator
\* (0, 5), or Wellington
LocationDefaults ==
    {[latitude |-> 0, longitude |-> 0], [latitude |-> 0, longitude |-> 5],
     [latitude |-> -41, longitude |-> 174]}

\* LocationOverride with only the coordinates
Override(latitude, longitude) ==
    [latitude |-> latitude, longitude |-> longitude, altitude |-> None,
     country_code |-> None, subdivision_code |-> None, deployment_type |-> None,
     node_name |-> None]

NoOverrides == [e \in {} |-> Override(0, 0)]

w_nz == <<"n","z">>
w_wgn == <<"w","g","n">>

\* LocationDefault at the coordinates of default
DefaultAt(default) ==
    [latitude |-> default.latitude, longitude |-> default.longitude,
     altitude |-> <<"1","0">>, country_code |-> w_nz, subdivision_code |-> w_wgn,
     deployment_type |-> w_INDOOR]

\* A live configuration without overrides and without a node name, on an
\* installation without the reverse_geocoder package
ConfigOf(f, default) ==
    [filters |-> f,
     location |-> [default |-> DefaultAt(default), overrides |-> NoOverrides],
     node_name |-> <<>>, dry_run |-> FALSE, disable_clickhouse |-> FALSE,
     geocoder |-> NoGeocoder]

\* The configurations a filter instance is built from
FilterRunConfigs ==
    {ConfigOf(f, [latitude |-> -41, longitude |-> 174]) : f \in FilterConfigs}

\* The configurations of the ingester runs: the base denylist and an allowlist
IngesterFilters ==
    {BaseFilters,
     [BaseFilters EXCEPT !.mode = "allowlist", !.include_entities = {globTemp, globT}]}

IngesterConfigs == {ConfigOf(f, d) : f \in IngesterFilters, d \in LocationDefaults}

\* time.time() of the runs, and the timestamps of the events: none, 30 s
\* ahead and 31 s ahead
Now == 100
w_130 == <<"1","3","0">>
w_131 == <<"1","3","1">>
EventTimestamps == {Absent, w_130, w_131}

\* A state_changed event: entity_id, and new_state unless it is null
Event(entity_id, has_new_state, new_state) ==
    [entity_id |-> entity_id, has_new_state |-> has_new_state, new_state |-> new_state]

\* The events of the runs: every entity with every state value and device
\* class and no timestamp, one entity with every timestamp, and an event
\* whose new_state is null
Events ==
    {Event(e, TRUE, StateDict(v, dc, Absent, Absent)) :
        e \in {idTemp, idTempX, idLight, None},
        v \in {w_unavailable, w_21_5},
        dc \in DeviceClassValues}
    \cup {Event(idTemp, TRUE, StateDict(w_21_5, w_Temperature, Absent, ts)) :
             ts \in EventTimestamps}
    \cup {Event(idTemp, FALSE, StateDict(Absent, Absent, Absent, Absent))}

NoHandled ==
    [n |-> 0, entity_id |-> None, has_new_state |-> FALSE, state_value |-> Absent,
     was_cached |-> FALSE, admitted |-> FALSE, stages |-> <<>>, raised |-> FALSE,
     reading |-> NoReading, publish_ok |-> FALSE,
     before |-> ZeroStats, published_before |-> 0, written_before |-> 0,
     empty_states |-> 0]

\* dict.update: the entries of new over those of old
Merge(old, new) ==
    [k \in DOMAIN old \cup DOMAIN new |-> IF k \in DOMAIN new THEN new[k] ELSE old[k]]

\* HomeAssistantIngester.__init__ and HomeAssistantClient.__init__: the
\* position of main() (pc), the flags of the ingester (running, stop_event)
\* and of the client (client_running, callback), the socket, the two tasks,
\* and on the side of the hub the registry snapshot it serves, whether the
\* connection is subscribed to state changes, and the messages it has sent
\* on the socket that the message loop has not received yet
NewLife(mode) ==
    [mode |-> mode, pc |-> "init", running |-> FALSE, stop_event |-> FALSE,
     client_running |-> FALSE, callback |-> FALSE, ws |-> "none",
     ws_task |-> "none", flush_task |-> "none", closed |-> FALSE,
     registry |-> "none", subscribed |-> FALSE, socket |-> <<>>]

\* Nothing has happened yet
NoHist ==
    [shutdown |-> FALSE, shutdown_at |-> "none", attempts |-> 0, slept |-> FALSE,
     loaded |-> "none", before_load |-> EmptyMetadata,
     during_load |-> FALSE, after_close |-> FALSE, sent |-> 0, done |-> <<>>,
     failed |-> {},
     close_found |-> NewWriter, close_called |-> FALSE]

-----------------------------------------------------------------------------
(* The filter on its own: one EntityFilter instance and its callers *)

InitCommon ==
    /\ cached = EmptyCache
    /\ first = EmptyCache
    /\ call = NoCall
    /\ stats = ZeroStats
    /\ handled = NoHandled
    /\ published = <<>>
    /\ written = <<>>
    /\ connections = 0
    /\ life = NewLife("websocket")
    /\ hist = NoHist

\* A caller asks should_ingest(entity_id, state), at most limit calls in all
ShouldIngestCall(limit) ==
    \E entity_id \in EntityIds \cup {None}, state \in FilterStates :
        /\ call.n < limit
        /\ \E r \in {should_ingest(config.filters, metadata, cached, entity_id, state)} :
              /\ cached' = r.cache
              /\ first' = NoteFirst(first, entity_id, r)
              /\ call' = [op |-> "should_ingest", entity_id |-> entity_id,
                          state |-> state, hit |-> r.hit, exc |-> r.exc,
                          ret |-> r.ret, n |-> call.n + 1]
        /\ UNCHANGED <<config, metadata, stats, handled, published, written, connections,
                       ch, life, hist>>

\* SpecFilter: a filter of any configuration, with or without metadata, is
\* asked for a decision
InitFilter ==
    /\ config \in FilterRunConfigs
    /\ metadata \in {NoMetadata, LoadedMetadata(Snapshot1)}
    /\ ch = NewWriter
    /\ InitCommon

FilterShouldIngest == ShouldIngestCall(MaxEvaluations)

NextFilter == FilterShouldIngest

SpecFilter == InitFilter /\ [][NextFilter]_vars

\* SpecCache: one filter instance is asked again and again, and its cache is
\* invalidated in between
InitCache ==
    /\ config \in IngesterConfigs
    /\ metadata \in {NoMetadata, LoadedMetadata(Snapshot1)}
    /\ ch = NewWriter
    /\ InitCommon

CacheShouldIngest == ShouldIngestCall(MaxCalls)

\* A caller asks invalidate_cache(entity_id) or invalidate_cache()
CacheInvalidate ==
    \E entity_id \in EntityIds \cup {None} :
        /\ call.n < MaxCalls
        /\ cached' = invalidate_cache(cached, entity_id)
        /\ first' = EmptyCache
        /\ call' = [NoCall EXCEPT !.op = "invalidate_cache", !.entity_id = entity_id,
                                  !.n = call.n + 1]
        /\ UNCHANGED <<config, metadata, stats, handled, published, written, connections,
                       ch, life, hist>>

NextCache == CacheShouldIngest \/ CacheInvalidate

SpecCache == InitCache /\ [][NextCache]_vars

-----------------------------------------------------------------------------
(* Configuration loading (src/src/config.py) *)

\* DEPLOYMENT_TYPES
DEPLOYMENT_TYPES == {w_INDOOR, w_OUTDOOR, w_MIXED}

\* load_config on the location section and the node name of a raw
\* configuration, whose missing keys are Absent: the deployment types are
\* upper-cased, a missing default one is INDOOR, and a missing or empty one
\* of an override is None
load_config(raw) ==
    [filters |-> raw.filters,
     location |->
         [default |->
              [raw.location.default EXCEPT
                   !.deployment_type = UpperStr(DictGet(@, w_INDOOR))],
          overrides |->
              [e \in DOMAIN raw.location.overrides |->
                  LET override == raw.location.overrides[e]
                      deployment == UpperStr(DictGet(override.deployment_type, <<>>))
                  IN [latitude |-> override.latitude,
                      longitude |-> override.longitude,
                      altitude |-> DictGet(override.altitude, None),
                      country_code |-> DictGet(override.country_code, None),
                      subdivision_code |-> DictGet(override.subdivision_code, None),
                      deployment_type |->
                          IF deployment # <<>> THEN deployment ELSE None,
                      node_name |-> DictGet(override.node_name, None)]]],
     node_name |-> raw.node_name,
     dry_run |-> raw.dry_run,
     disable_clickhouse |-> raw.disable_clickhouse,
     geocoder |-> raw.geocoder]

\* validate_config returns (TRUE) or raises ValueError (FALSE); the URL and
\* the access token of the hub are set
validate_config(cfg) == cfg.location.default.deployment_type \in DEPLOYMENT_TYPES

-----------------------------------------------------------------------------
(* transform on its own *)

w_outdoor == <<"o","u","t","d","o","o","r">>
w_garage == <<"g","a","r","a","g","e">>
w_au == <<"a","u">>
w_vic == <<"v","i","c">>
w_shed_2 == <<"s","h","e","d"," ","2">>
w_my_hub == <<"m","y","-","h","u","b">>
w_degF == <<"deg","F">>

\* location.default of the raw configurations: Wellington, 10 m, with and
\* without country and subdivision, deployment type missing or "garage"
RawDefaults ==
    {[latitude |-> -41, longitude |-> 174, altitude |-> <<"1","0">>,
      country_code |-> codes[1], subdivision_code |-> codes[2],
      deployment_type |-> d] :
        codes \in {<<w_nz, w_wgn>>, << <<>>, <<>> >>}, d \in {Absent, w_garage}}

\* The overrides of idTempX in the raw configurations: at (5, 6), each
\* optional key missing or set
RawOverrides ==
    {[latitude |-> 5, longitude |-> 6, altitude |-> a, country_code |-> c,
      subdivision_code |-> sd, deployment_type |-> d, node_name |-> n] :
        a \in {Absent, <<"0">>}, c \in {Absent, w_au}, sd \in {Absent, w_vic},
        d \in {Absent, w_outdoor, w_garage}, n \in {Absent, w_shed_2}}

\* location.overrides: none, or one for idTempX
RawOverrideMaps ==
    {NoOverrides} \cup {[e \in {idTempX} |-> o] : o \in RawOverrides}

\* The geocoders of the installations: none, one that raises, one without
\* results, and ones that find a place in the table of subdivisions, a
\* place outside it and a place without admin1
Geocoders ==
    {NoGeocoder, RaisingGeocoder, EmptyGeocoder,
     Place(<<"N","Z">>, <<"F","1">>),
     Place(<<"F","R">>, <<"B","r","e","t","a","g","n","e">>),
     Place(<<"M","C">>, <<>>)}

NodeNames == {<<>>, w_my_hub}

RawConfigs ==
    {[filters |-> BaseFilters,
      location |-> [default |-> d, overrides |-> o],
      node_name |-> n, dry_run |-> FALSE, disable_clickhouse |-> FALSE,
      geocoder |-> g] :
        d \in RawDefaults, o \in RawOverrideMaps, n \in NodeNames, g \in Geocoders}

\* The configurations main() builds an ingester from: loaded, and accepted
\* by validate_config
TransformConfigs == {cfg \in {load_config(raw) : raw \in RawConfigs} : validate_config(cfg)}

\* An entity id without a '.'
idBare == w_sensor

TransformEntities == {idTemp, idTempX, idLight, idBare, None}

\* The state dicts given to transform: a temperature in Fahrenheit, an
\* unavailable one, a numeric state without device class and with a null
\* unit, and temperatures with "latitude" and "longitude" attributes that
\* are numbers, text, null, or of which one is missing
TransformStates ==
    {StateDict(w_21_5, w_Temperature, w_degF, Absent),
     StateDict(w_unavailable, w_Temperature, w_degF, Absent),
     StateDict(w_21_5, Absent, None, Absent)}
    \cup {WithCoordinates(StateDict(w_21_5, w_Temperature, Absent, Absent),
                          c[1], c[2], c[3]) :
             c \in {<< <<"5">>, <<"7">>, Absent >>, << <<"5">>, <<"7">>, <<"3">> >>,
                    << <<"x">>, <<"7">>, Absent >>, << None, <<"7">>, Absent >>,
                    << <<"5">>, Absent, Absent >>}}

InitTransform ==
    /\ config \in TransformConfigs
    /\ metadata \in {EmptyMetadata, LoadedMetadata(Snapshot1)}
    /\ ch = NewWriter
    /\ InitCommon

\* A caller transforms a state of an entity; transform keeps no state, so
\* one call in a run shows all it does
TransformCall ==
    \E entity_id \in TransformEntities, state \in TransformStates :
        /\ call.n = 0
        /\ call' = [op |-> "transform", entity_id |-> entity_id, state |-> state,
                    ret |-> transform(config, metadata, entity_id, state, Now),
                    n |-> call.n + 1]
        /\ UNCHANGED <<config, metadata, cached, first, stats, handled, published,
                       written, connections, ch, life, hist>>

NextTransform == TransformCall

SpecTransform == InitTransform /\ [][NextTransform]_vars

-----------------------------------------------------------------------------
(* convert_unit on its own *)

\* The values converted: 0, 1, -40, 21.5, 100
ConvertValues == {<<0, 1>>, <<1, 1>>, <<-40, 1>>, <<43, 2>>, <<100, 1>>}

\* The units of the calls: those of the registered pairs
ConvertUnits ==
    {UNIT_CONVERSIONS[i].from : i \in 1..Len(UNIT_CONVERSIONS)}
        \cup {UNIT_CONVERSIONS[i].to : i \in 1..Len(UNIT_CONVERSIONS)}

InitConvert ==
    /\ config = ConfigOf(BaseFilters, [latitude |-> -41, longitude |-> 174])
    /\ metadata = EmptyMetadata
    /\ ch = NewWriter
    /\ InitCommon

\* A caller converts x from one unit to another, and the result back;
\* convert_unit keeps no state, so one call in a run shows all it does
ConvertCall ==
    \E x \in ConvertValues, from_unit \in ConvertUnits, to_unit \in ConvertUnits :
        /\ call.n = 0
        /\ call' = [op |-> "convert_unit", x |-> x, from_unit |-> from_unit,
                    to_unit |-> to_unit,
                    ret |-> convert_unit(x, from_unit, to_unit),
                    back |-> convert_unit(convert_unit(x, from_unit, to_unit),
                                          to_unit, from_unit),
                    n |-> call.n + 1]
        /\ UNCHANGED <<config, metadata, cached, first, stats, handled, published,
                       written, connections, ch, life, hist>>

NextConvert == ConvertCall

SpecConvert == InitConvert /\ [][NextConvert]_vars

-----------------------------------------------------------------------------
(* transform on the units of the hub *)

w_distance == <<"d","i","s","t","a","n","c","e">>
w_energy == <<"e","n","e","r","g","y">>
w_1_23456 == <<"1",".","2","3","4","5","6">>
w_nan == <<"n","a","n">>
w_foo == <<"f","o","o">>

\* The units the hub reports: those of unit_patterns in the spelling of the
\* hub, units with a registered conversion, the canonical unit of a distance,
\* a unit the catalog does not know, the empty unit and no unit
HubUnits ==
    {<<"deg","C">>, <<"deg","F">>, <<"%">>, <<"h","P","a">>, <<"m","b","a","r">>,
     <<"p","p","m">>, <<"mu","g","/","m","cube">>, <<"l","u","x">>, <<"V">>, <<"W">>,
     <<"k","W","h">>, <<"K">>, <<"c","m">>, <<"m">>, w_foo, <<>>, Absent}

\* The state dicts of these calls: a value with one, with five decimals or
\* nan, the device class missing or that of a temperature, a distance or an
\* energy, and a unit
UnitStates ==
    {StateDict(v, dc, u, Absent) :
        v \in {w_21_5, w_1_23456, w_nan},
        dc \in {Absent, w_Temperature, w_distance, w_energy},
        u \in HubUnits}

InitUnits ==
    /\ config = ConfigOf(BaseFilters, [latitude |-> -41, longitude |-> 174])
    /\ metadata = EmptyMetadata
    /\ ch = NewWriter
    /\ InitCommon

\* A caller transforms a state of an entity whose id names its reading type
\* (idTemp) or does not (idLight)
UnitsCall ==
    \E entity_id \in {idTemp, idLight}, state \in UnitStates :
        /\ call.n = 0
        /\ call' = [op |-> "transform", entity_id |-> entity_id, state |-> state,
                    ret |-> transform(config, metadata, entity_id, state, Now),
                    n |-> call.n + 1]
        /\ UNCHANGED <<config, metadata, cached, first, stats, handled, published,
                       written, connections, ch, life, hist>>

NextUnits == UnitsCall

SpecUnits == InitUnits /\ [][NextUnits]_vars

-----------------------------------------------------------------------------
(* transform on the entities of one device *)

\* A registry snapshot in which idTemp and idTempX are two sensors of the
\* device dev1
SharedDevice ==
    [Snapshot1 EXCEPT !.entities[idTempX].device_id = dev1]

\* The configurations of these runs: those of TransformConfigs on an
\* installation without the reverse_geocoder package
DeviceConfigs == {cfg \in TransformConfigs : cfg.geocoder = NoGeocoder}

InitDevice ==
    /\ config \in DeviceConfigs
    /\ metadata = LoadedMetadata(SharedDevice)
    /\ ch = NewWriter
    /\ InitCommon

\* A caller transforms a state of one of the entities of the registry
DeviceCall ==
    \E entity_id \in {idTemp, idTempX, idLight} :
        \E state \in {StateDict(w_21_5, w_Temperature, Absent, Absent)} :
            /\ call.n = 0
            /\ call' = [op |-> "transform", entity_id |-> entity_id, state |-> state,
                        ret |-> transform(config, metadata, entity_id, state, Now),
                        n |-> call.n + 1]
            /\ UNCHANGED <<config, metadata, cached, first, stats, handled, published,
                           written, connections, ch, life, hist>>

NextDevice == DeviceCall

SpecDevice == InitDevice /\ [][NextDevice]_vars

-----------------------------------------------------------------------------
(* The writer on its own: writes, periodic flushes and the close *)

\* The readings handed to the writer: one with the current time, one 30 s
\* ahead, one 31 s ahead
WriterReadings ==
    {transform(ConfigOf(BaseFilters, [latitude |-> -41, longitude |-> 174]),
               EmptyMetadata, idTemp, StateDict(w_21_5, w_Temperature, Absent, ts), Now) :
        ts \in EventTimestamps}

InitWriter ==
    /\ config = ConfigOf(BaseFilters, [latitude |-> -41, longitude |-> 174])
    /\ metadata = EmptyMetadata
    /\ ch \in {connect(NewWriter, ok) : ok \in BOOLEAN}
    /\ InitCommon

\* The orchestrator hands a reading to write
WriterWrite ==
    \E data \in WriterReadings, due \in BOOLEAN, insert_ok \in BOOLEAN :
        /\ ~hist.close_called
        /\ Len(written) < MaxWrites
        /\ ch' = write(ch, data, Now, due, insert_ok)
        /\ written' = Append(written, data)
        /\ UNCHANGED <<config, metadata, cached, first, call, stats, handled, published,
                       connections, life, hist>>

\* start_periodic_flush: the flush interval has passed
WriterPeriodicFlush ==
    \E insert_ok \in BOOLEAN :
        /\ ~hist.close_called
        /\ ch.buffer # <<>>
        /\ ch' = flush(ch, insert_ok)
        /\ UNCHANGED <<config, metadata, cached, first, call, stats, handled, published,
                       written, connections, life, hist>>

\* stop() closes the writer
WriterClose ==
    \E insert_ok \in BOOLEAN :
        /\ ~hist.close_called
        /\ ch' = close(ch, insert_ok)
        /\ hist' = [hist EXCEPT !.close_called = TRUE, !.close_found = ch]
        /\ UNCHANGED <<config, metadata, cached, first, call, stats, handled, published,
                       written, connections, life>>

NextWriter == WriterWrite \/ WriterPeriodicFlush \/ WriterClose

SpecWriter == InitWriter /\ [][NextWriter]_vars

-----------------------------------------------------------------------------
(* The ingester: events of the hub through _handle_state_change *)

\* start(): the writer is connected, or the run goes on without a database
\* connection when ClickHouseWriter.connect fails
Init ==
    /\ config \in IngesterConfigs
    /\ metadata = EmptyMetadata
    /\ ch \in {connect(NewWriter, ok) : ok \in BOOLEAN}
    /\ InitCommon

\* The callback of the client: _handle_state_change runs on the event ev,
\* from its first statement to its last; the flush interval of the writer
\* has passed or not (dues), the insert succeeds or not (inserts)
Deliver(ev, publish_ok, dues, inserts) ==
    \E o \in {_handle_state_change(config, metadata, stats, cached, ev, Now,
                                    publish_ok, published, written)} :
        /\ stats' = o.stats
        /\ cached' = o.cache
        /\ published' = o.published
        /\ written' = o.written
        /\ IF "write" \in {o.stages[i] : i \in 1..Len(o.stages)}
           THEN \E due \in dues, insert_ok \in inserts :
                    ch' = write(ch, o.reading, Now, due, insert_ok)
           ELSE ch' = ch
        /\ handled' = [n |-> handled.n + 1,
                       entity_id |-> ev.entity_id,
                       has_new_state |-> ev.has_new_state,
                       state_value |-> ev.new_state.state,
                       was_cached |-> ev.entity_id \in DOMAIN cached,
                       admitted |-> /\ ev.entity_id \in DOMAIN o.cache
                                    /\ o.cache[ev.entity_id],
                       stages |-> o.stages,
                       raised |-> o.raised,
                       reading |-> o.reading,
                       publish_ok |-> publish_ok,
                       before |-> stats,
                       published_before |-> Len(published),
                       written_before |-> Len(written),
                       empty_states |-> IF ev.has_new_state THEN handled.empty_states
                                        ELSE handled.empty_states + 1]

\* The hub delivers an event, and _handle_state_change runs on it
HandleStateChange ==
    \E ev \in Events, publish_ok \in BOOLEAN :
        /\ stats.state_changes_received < MaxEvents
        /\ Deliver(ev, publish_ok, BOOLEAN, BOOLEAN)
        /\ UNCHANGED <<config, metadata, first, call, connections, life, hist>>

\* A hub connection is up: load_from_client puts the registry snapshot into
\* the metadata object, and the ingester builds a new EntityFilter on it
LoadMetadata ==
    \E snap \in {Snapshot1} :
        /\ connections < MaxLoads
        /\ connections' = connections + 1
        /\ metadata' = [present |-> TRUE,
                        entities |-> Merge(metadata.entities, snap.entities),
                        devices |-> Merge(metadata.devices, snap.devices),
                        areas |-> Merge(metadata.areas, snap.areas)]
        /\ cached' = EmptyCache
        /\ UNCHANGED <<config, first, call, stats, handled, published, written, ch,
                       life, hist>>

Next == HandleStateChange \/ LoadMetadata

Spec == Init /\ [][Next]_vars

-----------------------------------------------------------------------------
(* The ingester in dry-run mode *)

\* The configurations of the ingester runs with dry_run: true
DryConfigs == {[cfg EXCEPT !.dry_run = TRUE] : cfg \in IngesterConfigs}

InitDry ==
    /\ config \in DryConfigs
    /\ metadata = EmptyMetadata
    /\ ch \in {connect(WriterOf(config), ok) : ok \in BOOLEAN}
    /\ InitCommon

\* The events of the dry runs: a temperature of each entity, an unavailable
\* one, one of each timestamp, and an event whose new_state is null
DryEvents ==
    {Event(e, TRUE, StateDict(w_21_5, w_Temperature, Absent, Absent)) :
        e \in {idTemp, idTempX, idLight, None}}
    \cup {Event(idTemp, TRUE, StateDict(w_unavailable, w_Temperature, Absent, Absent))}
    \cup {Event(idTemp, TRUE, StateDict(w_21_5, w_Temperature, Absent, ts)) :
             ts \in EventTimestamps}
    \cup {Event(idTemp, FALSE, StateDict(Absent, Absent, Absent, Absent))}

\* The hub delivers an event, and _handle_state_change runs on it; call
\* keeps the event
DryStateChange ==
    \E ev \in DryEvents, publish_ok \in BOOLEAN :
        /\ ~hist.close_called
        /\ stats.state_changes_received < MaxEvents
        /\ Deliver(ev, publish_ok, BOOLEAN, {TRUE})
        /\ call' = [op |-> "event", event |-> ev, n |-> 0]
        /\ UNCHANGED <<config, metadata, first, connections, life, hist>>

NextDry == DryStateChange \/ LoadMetadata \/ WriterPeriodicFlush \/ WriterClose

SpecDry == InitDry /\ [][NextDry]_vars

-----------------------------------------------------------------------------
(* The run of the ingester: main(), start(), the two update modes, stop() *)

\* The event of these runs
LifeEvents ==
    {Event(idTempX, TRUE, StateDict(w_21_5, w_Temperature, Absent, Absent))}

\* The closing frame of the hub
w_CLOSED == [n |-> 0, type |-> "CLOSED"]

\* A receive that returns the newest message on the socket
receive_newest(socket) ==
    [msg |-> socket[Len(socket)], rest |-> SubSeq(socket, 1, Len(socket) - 1)]

\* self._ws.receive(): the oldest message on the socket
receive(socket) == [msg |-> Head(socket), rest |-> Tail(socket)]

\* The hub is there to answer a request on the socket
HubUp ==
    /\ life.ws = "open"
    /\ life.ws_task = "running"
    /\ \A i \in 1..Len(life.socket) : life.socket[i] # w_CLOSED

\* A connection that subscribes before it loads the registries
steps_subscribe_first ==
    <<"subscribing", "load_entities", "load_devices", "load_areas", "waiting">>

\* _run_websocket_mode, on a connection that is up and whose message loop
\* has been started: the registry loads, then the subscription, then the
\* wait for the end of the message loop or for the stop event
steps ==
    <<"load_entities", "load_devices", "load_areas", "subscribing", "waiting">>

\* The step that follows step
After(step) == steps[(CHOOSE i \in 1..Len(steps) : steps[i] = step) + 1]

\* The main task moves on to step; subscribe_state_changes sets the callback
\* before it sends its request, and the periodic flush task is created just
\* before the wait
Enter(l, step) ==
    CASE step = "waiting" -> [l EXCEPT !.pc = step, !.flush_task = "running"]
      [] step = "subscribing" -> [l EXCEPT !.pc = step, !.callback = TRUE]
      [] OTHER -> [l EXCEPT !.pc = step]

LoadSteps == {"load_entities", "load_devices", "load_areas"}
LoopSteps == {"top", "connecting", "sleep30", "connected", "subscribing", "waiting"}
                \cup LoadSteps
PollSteps == {"polling", "poll_sleep"}

\* main() has created the ingester and installed the signal handlers
InitLife ==
    /\ config = ConfigOf(BaseFilters, [latitude |-> -41, longitude |-> 174])
    /\ metadata = EmptyMetadata
    /\ ch = NewWriter
    /\ cached = EmptyCache
    /\ first = EmptyCache
    /\ call = NoCall
    /\ stats = ZeroStats
    /\ handled = NoHandled
    /\ published = <<>>
    /\ written = <<>>
    /\ connections = 0
    /\ life \in {NewLife(mode) : mode \in {"websocket", "polling"}}
    /\ hist = NoHist

\* A start() that gives up when the database cannot be reached
start_needs_database(mqtt_ok, ch_ok) == mqtt_ok /\ ch_ok

\* start() goes on after the two connects: it returns when the broker
\* connect fails, and only logs a warning when the database connect fails
start_goes_on(mqtt_ok, ch_ok) == mqtt_ok

\* start() up to the safety check: the broker, the database, the first filter
Start ==
    \E mqtt_ok \in BOOLEAN, ch_ok \in BOOLEAN :
        /\ life.pc = "init"
        /\ ~mqtt_ok => ch_ok
        /\ IF mqtt_ok
           THEN /\ ch' = connect(ch, ch_ok)
                /\ hist' = [hist EXCEPT !.failed = IF ch_ok THEN @ ELSE @ \cup {"database"}]
           ELSE /\ hist' = [hist EXCEPT !.failed = @ \cup {"broker"}]
                /\ UNCHANGED ch
        /\ IF start_goes_on(mqtt_ok, ch_ok)
           THEN /\ cached' = EmptyCache
                /\ life' = [life EXCEPT !.pc = "safety"]
           ELSE /\ life' = [life EXCEPT !.pc = "returned"]
                /\ UNCHANGED cached
        /\ UNCHANGED <<config, metadata, first, call, stats, handled, published, written,
                       connections>>

\* start(): the safety check has returned, the running flag is set and the
\* update mode entered. The entity of these runs has no MAC address and no
\* keyword of the scan in its id, so the scan asks the filter nothing about
\* it (SpecPoll has the scan with its calls of the filter).
SafetyChecked ==
    /\ life.pc = "safety"
    /\ life' = [life EXCEPT !.running = TRUE,
                             !.pc = IF life.mode = "websocket" THEN "top" ELSE "poll"]
    /\ UNCHANGED <<config, metadata, cached, first, call, stats, handled, published,
                   written, connections, ch, hist>>

\* request_shutdown, the handler of SIGINT and SIGTERM
RequestShutdown ==
    /\ ~hist.shutdown
    /\ life.pc # "stopped"
    /\ life' = [life EXCEPT !.running = FALSE, !.stop_event = TRUE]
    /\ hist' = [hist EXCEPT !.shutdown = TRUE,
                             !.shutdown_at = IF life.pc \in LoopSteps THEN "loop"
                                             ELSE IF life.pc \in PollSteps THEN "poll"
                                             ELSE "outside"]
    /\ UNCHANGED <<config, metadata, cached, first, call, stats, handled, published,
                   written, connections, ch>>

\* _run_websocket_mode, while self._running: the loop ends, or
\* connect_websocket is called
WsTop ==
    /\ life.pc = "top"
    /\ IF life.running
       THEN /\ life' = [life EXCEPT !.pc = "connecting"]
            /\ hist' = [hist EXCEPT !.attempts = IF @ < 2 THEN @ + 1 ELSE @]
       ELSE /\ life' = [life EXCEPT !.pc = "returned"]
            /\ UNCHANGED hist
    /\ UNCHANGED <<config, metadata, cached, first, call, stats, handled, published,
                   written, connections, ch>>

\* connect_websocket returns: the hub has accepted the connection and the
\* token, or the connection has failed. The first connection is served
\* Snapshot1, a later one Snapshot1 or Snapshot2.
ConnectAnswered ==
    \E ok \in BOOLEAN, name \in {"Snapshot1", "Snapshot2"} :
        /\ life.pc = "connecting"
        /\ IF ok
           THEN /\ connections < MaxConnects
                /\ connections = 0 => name = "Snapshot1"
                /\ connections' = connections + 1
                /\ life' = [life EXCEPT !.pc = "connected", !.ws = "open",
                                         !.registry = name, !.subscribed = FALSE,
                                         !.socket = <<>>]
                /\ hist' = [hist EXCEPT !.loaded = "none", !.slept = FALSE,
                                         !.before_load = metadata]
           ELSE /\ name = "Snapshot1"
                /\ life' = [life EXCEPT !.pc = "sleep30"]
                /\ hist' = [hist EXCEPT !.slept = FALSE, !.failed = @ \cup {"hub"}]
                /\ UNCHANGED connections
        /\ UNCHANGED <<config, metadata, cached, first, call, stats, handled, published,
                       written, ch>>

\* _interruptible_sleep(30) returns, on its timeout or on the stop event
BackoffDone ==
    /\ life.pc = "sleep30"
    /\ life' = [life EXCEPT !.pc = IF life.running THEN "top" ELSE "returned"]
    /\ hist' = [hist EXCEPT !.slept = TRUE]
    /\ UNCHANGED <<config, metadata, cached, first, call, stats, handled, published,
                   written, connections, ch>>

\* The message loop is started as a task, and the main task sleeps 0.1 s
StartLoop ==
    /\ life.pc = "connected"
    /\ life' = [Enter(life, steps[1]) EXCEPT !.ws_task = "running",
                                             !.client_running = TRUE]
    /\ UNCHANGED <<config, metadata, cached, first, call, stats, handled, published,
                   written, connections, ch, hist>>

\* The metadata after the registry fetched at step
Fetched(meta, step, snap) ==
    CASE step = "load_entities" ->
              [meta EXCEPT !.entities = Merge(meta.entities, snap.entities)]
      [] step = "load_devices" ->
              [meta EXCEPT !.devices = Merge(meta.devices, snap.devices)]
      [] step = "load_areas" ->
              [meta EXCEPT !.areas = Merge(meta.areas, snap.areas)]

\* load_from_client, one registry at a time: the call returns at once when
\* the socket is closed, a fetch that is answered goes into the metadata
\* object, a fetch that fails or times out ends the load; when the load
\* returns the ingester builds a new EntityFilter
LoadStep ==
    \E answered \in BOOLEAN :
        /\ life.pc \in LoadSteps
        /\ IF life.pc = "load_entities" /\ life.ws # "open"
           THEN /\ answered
                /\ life' = Enter(life, After("load_areas"))
                /\ hist' = [hist EXCEPT !.loaded = "skipped",
                                         !.failed = @ \cup {"registry"}]
                /\ cached' = EmptyCache
                /\ UNCHANGED metadata
           ELSE IF answered
           THEN /\ HubUp
                /\ metadata' = Fetched(metadata, life.pc, Registry(life.registry))
                /\ life' = Enter(life, After(life.pc))
                /\ IF life.pc = "load_areas"
                   THEN /\ hist' = [hist EXCEPT !.loaded = "complete"]
                        /\ cached' = EmptyCache
                   ELSE UNCHANGED <<hist, cached>>
           ELSE /\ life' = Enter(life, After("load_areas"))
                /\ hist' = [hist EXCEPT !.loaded = "failed",
                                         !.failed = @ \cup {"registry"}]
                /\ cached' = EmptyCache
                /\ UNCHANGED metadata
        /\ UNCHANGED <<config, first, call, stats, handled, published, written,
                       connections, ch>>

\* subscribe_state_changes returns: the hub has
\* subscribed the connection, or the request has failed or timed out and the
\* message loop is cancelled
SubscribeAnswered ==
    \E answered \in BOOLEAN :
        /\ life.pc = "subscribing"
        /\ IF answered
           THEN /\ HubUp
                /\ life' = [Enter(life, After("subscribing")) EXCEPT !.subscribed = TRUE]
           ELSE /\ life' = [life EXCEPT !.pc = "top", !.ws_task = "done",
                                        !.client_running = FALSE]
        /\ UNCHANGED <<config, metadata, cached, first, call, stats, handled, published,
                       written, connections, ch, hist>>

\* asyncio.wait returns, on the end of the message loop or on the stop
\* event; the message loop and the flush task are cancelled
WaitDone ==
    /\ life.pc = "waiting"
    /\ life.ws_task # "running" \/ life.stop_event
    /\ life' = [life EXCEPT !.pc = "top", !.ws_task = "done",
                             !.client_running = FALSE, !.flush_task = "cancelled"]
    /\ UNCHANGED <<config, metadata, cached, first, call, stats, handled, published,
                   written, connections, ch, hist>>

\* The hub sends a state_changed event on a subscribed connection
HubEvent ==
    \E ev \in LifeEvents :
        /\ life.ws = "open" /\ life.subscribed
        /\ hist.sent < MaxDelivered
        /\ life' = [life EXCEPT !.socket = Append(@, [n |-> hist.sent + 1,
                                                       type |-> "event", event |-> ev])]
        /\ hist' = [hist EXCEPT !.sent = @ + 1]
        /\ UNCHANGED <<config, metadata, cached, first, call, stats, handled, published,
                       written, connections, ch>>

\* The hub closes the socket
HubClose ==
    /\ life.ws = "open"
    /\ life.pc \in LoopSteps
    /\ \A i \in 1..Len(life.socket) : life.socket[i] # w_CLOSED
    /\ life' = [life EXCEPT !.subscribed = FALSE, !.socket = Append(@, w_CLOSED)]
    /\ UNCHANGED <<config, metadata, cached, first, call, stats, handled, published,
                   written, connections, ch, hist>>

\* run_websocket_loop receives a message: on CLOSED it ends; a state_changed
\* event goes through _handle_ws_message to the callback, and the loop
\* awaits the end of the callback before it receives again
LoopReceive ==
    /\ life.ws_task = "running"
    /\ life.socket # <<>>
    /\ \E r \in {receive(life.socket)} :
        /\ IF r.msg = w_CLOSED
           THEN /\ life' = [life EXCEPT !.socket = r.rest, !.ws = "closed",
                                        !.ws_task = "done", !.client_running = FALSE]
                /\ UNCHANGED <<cached, stats, handled, published, written, ch, hist>>
           ELSE /\ life' = [life EXCEPT !.socket = r.rest]
                /\ IF life.callback
                   THEN /\ Deliver(r.msg.event, TRUE, {FALSE}, {TRUE})
                        /\ hist' = [hist EXCEPT !.during_load = life.pc \in LoadSteps,
                                                 !.after_close = life.closed,
                                                 !.done = Append(@, r.msg.n)]
                   ELSE UNCHANGED <<cached, stats, handled, published, written, ch, hist>>
        /\ UNCHANGED <<config, metadata, first, call, connections>>

\* start_periodic_flush: the flush interval has passed
PeriodicFlush ==
    \E insert_ok \in {TRUE} :
        /\ life.flush_task = "running"
        /\ ch.buffer # <<>>
        /\ ch' = flush(ch, insert_ok)
        /\ UNCHANGED <<config, metadata, cached, first, call, stats, handled, published,
                       written, connections, life, hist>>

\* _run_polling_mode: the flush task is created and poll_states called
PollStart ==
    /\ life.pc = "poll"
    /\ life' = [life EXCEPT !.pc = "polling", !.flush_task = "running",
                             !.client_running = TRUE]
    /\ UNCHANGED <<config, metadata, cached, first, call, stats, handled, published,
                   written, connections, ch, hist>>

\* poll_states, while self._running: the loop ends and _run_polling_mode
\* cancels the flush task, or get_states fails, or it returns the states and
\* the callback runs on each state that has changed
PollStates ==
    /\ life.pc = "polling"
    /\ IF ~life.client_running
       THEN /\ life' = [life EXCEPT !.pc = "returned", !.flush_task = "cancelled"]
            /\ UNCHANGED <<cached, stats, handled, published, written, ch, hist>>
       ELSE /\ life' = [life EXCEPT !.pc = "poll_sleep"]
            /\ \/ UNCHANGED <<cached, stats, handled, published, written, ch, hist>>
               \/ \E ev \in LifeEvents, publish_ok \in {TRUE} :
                     /\ hist.sent < MaxDelivered
                     /\ Deliver(ev, publish_ok, {FALSE}, {TRUE})
                     /\ hist' = [hist EXCEPT !.during_load = FALSE,
                                              !.after_close = life.closed,
                                              !.sent = @ + 1,
                                              !.done = Append(@, hist.sent + 1)]
    /\ UNCHANGED <<config, metadata, first, call, connections>>

\* poll_states: the sleep between two polls, in chunks of one second, each
\* after a look at the running flag of the client
PollSleep ==
    /\ life.pc = "poll_sleep"
    /\ life' = [life EXCEPT !.pc = "polling"]
    /\ UNCHANGED <<config, metadata, cached, first, call, stats, handled, published,
                   written, connections, ch, hist>>

\* main(), finally: stop() clears the flags, closes the client, disconnects
\* the publisher and closes the writer
Stop ==
    \E insert_ok \in BOOLEAN :
        /\ life.pc = "returned"
        /\ life' = [life EXCEPT !.pc = "stopped", !.running = FALSE,
                                 !.stop_event = TRUE, !.client_running = FALSE,
                                 !.ws = IF @ = "open" THEN "closed" ELSE @,
                                 !.subscribed = FALSE, !.closed = TRUE,
                                 !.socket = <<>>]
        /\ ch' = close(ch, insert_ok)
        /\ hist' = [hist EXCEPT !.close_called = TRUE, !.close_found = ch]
        /\ UNCHANGED <<config, metadata, cached, first, call, stats, handled, published,
                       written, connections>>

\* The steps of the main task
MainTask ==
    \/ Start \/ SafetyChecked \/ WsTop \/ BackoffDone \/ StartLoop \/ LoadStep
    \/ SubscribeAnswered \/ WaitDone \/ PollStart \/ PollStates \/ PollSleep \/ Stop

\* The signal, the hub, the message loop and the flush task
Surroundings ==
    \/ RequestShutdown \/ ConnectAnswered \/ HubEvent \/ HubClose \/ LoopReceive
    \/ PeriodicFlush

NextLife == MainTask \/ Surroundings

SpecLife == InitLife /\ [][NextLife]_vars

\* The event loop runs the main task whenever it can take a step: its timers
\* fire (the backoff sleep, the 30 s of a request on the socket, the poll
\* sleep) and a set stop event wakes it. connect_websocket has no timer: the
\* answer of the hub is not assumed.
SpecLifeFair == SpecLife /\ WF_vars(MainTask)

-----------------------------------------------------------------------------
(* Properties of the filter *)

Range(seq) == {seq[i] : i \in 1..Len(seq)}

\* The last call was should_ingest
Asked == call.op = "should_ingest"

\* The last should_ingest call returned true
Admitted == Asked /\ ~call.exc /\ call.ret

\* Some configured exclude regex matches the entity id s somewhere,
\* letter case ignored
SomeExcludePatternMatches(f, s) ==
    /\ s # None
    /\ \E k \in 1..Len(f.exclude_entity_patterns) :
          LET pattern == f.exclude_entity_patterns[k]
          IN \E offset \in 0..(Len(s) - Len(pattern)) :
                \A j \in 1..Len(pattern) :
                    LowerChar(s[offset + j]) \in {LowerChar(c) : c \in pattern[j]}

C3_CacheSticky ==
    (Asked /\ call.entity_id \in DOMAIN first)
        => (~call.exc /\ call.ret = first[call.entity_id])

\* A second call returned the cached decision although its own state would
\* have been decided the other way
C3_Witness ==
    /\ Asked
    /\ call.n >= 2
    /\ call.hit
    /\ ~_evaluate_filters(config.filters, metadata, call.entity_id, call.state).exc
    /\ _evaluate_filters(config.filters, metadata, call.entity_id, call.state).ret
           # call.ret

\* The allowlist configuration with the include-entity set of f and every
\* other setting empty
AllowlistOf(f) ==
    [mode |-> "allowlist",
     include_domains |-> {},
     include_device_classes |-> {},
     exclude_entity_patterns |-> <<>>,
     exclude_integrations |-> {},
     exclude_manufacturers |-> {},
     exclude_entities |-> {},
     include_entities |-> f.include_entities]

RECURSIVE GlobMatchesWhole(_, _, _, _)
GlobMatchesWhole(p, i, s, j) ==
    IF i > Len(p) THEN j > Len(s)
    ELSE IF p[i] = "*"
         THEN \E k \in j..(Len(s) + 1) : GlobMatchesWhole(p, i + 1, s, k)
         ELSE /\ j <= Len(s)
              /\ LowerChar(p[i]) = LowerChar(s[j])
              /\ GlobMatchesWhole(p, i + 1, s, j + 1)

\* C6 as stated: in allowlist mode an entity id is admitted iff it is an
\* include entry or the whole id matches an include entry with a '*'
C6_GlobFullMatch ==
    (Asked /\ config.filters.mode = "allowlist" /\ call.entity_id # None)
        => (Admitted <=>
              \E p \in config.filters.include_entities :
                  \/ p = call.entity_id
                  \/ Contains(p, <<"*">>) /\ GlobMatchesWhole(p, 1, call.entity_id, 1))

NumericState(state) ==
    /\ state.state \notin {Absent, None, w_unknown, w_unavailable}
    /\ ParsesAsFloat(state.state)

C9_Conditions ==
    LET f == config.filters
        e == call.entity_id
        info == get_entity_info(metadata, e)
        dc == call.state.attributes.device_class
    IN /\ e \notin f.exclude_entities
       /\ ~SomeExcludePatternMatches(f, e)
       /\ \/ ~metadata.present
          \/ info.manufacturer = None
          \/ LowerStr(info.manufacturer) \notin {LowerStr(m) : m \in f.exclude_manufacturers}
       /\ \/ ~metadata.present
          \/ info.platform = None
          \/ LowerStr(info.platform) \notin {LowerStr(i) : i \in f.exclude_integrations}
       /\ f.include_domains # {} => BeforeFirstDot(e) \in f.include_domains
       /\ f.include_device_classes # {} =>
             /\ dc \notin {Absent, None, <<>>}
             /\ LowerStr(dc) \in {LowerStr(c) : c \in f.include_device_classes}
       /\ NumericState(call.state)

\* C9 as stated: in denylist mode the first evaluation of an entity id outside
\* the include-entity set admits it iff the eight conditions hold
C9_DenylistDecision ==
    (/\ Asked
     /\ ~call.hit
     /\ config.filters.mode = "denylist"
     /\ call.entity_id # None
     /\ call.entity_id \notin config.filters.include_entities)
        => (Admitted <=> C9_Conditions)

\* C9 on the inputs without a null field: there the decision is the
\* conjunction of the eight conditions
C9_DenylistDecisionNoNulls ==
    (/\ Asked
     /\ ~call.hit
     /\ config.filters.mode = "denylist"
     /\ call.entity_id # None
     /\ call.entity_id \notin config.filters.include_entities
     /\ call.state.attributes.device_class # None
     /\ metadata.present =>
           /\ get_entity_info(metadata, call.entity_id).manufacturer # None
           /\ get_entity_info(metadata, call.entity_id).platform # None)
        => (~call.exc /\ (call.ret <=> C9_Conditions))

-----------------------------------------------------------------------------
(* Properties of the per-event path *)

\* _handle_state_change has run on an event that carried a new state
Handled == handled.n > 0 /\ handled.has_new_state

StageOrder == <<"admission", "transform", "future", "location", "publish", "write">>

\* The four counters of the events that were dropped
Dropped(st) ==
    st.entities_filtered + st.transform_failures + st.future_timestamps
        + st.missing_location

\* C2 as stated, on the events that _handle_state_change returns from: in
\* denylist mode an event whose new state is "unavailable" is not passed to
\* transform; entities_filtered is incremented for it and transform_failures
\* is not, whatever events were handled before it
C2_UnavailableNeverTransformed ==
    (/\ Handled
     /\ ~handled.raised
     /\ config.filters.mode = "denylist"
     /\ handled.state_value = w_unavailable)
        => /\ "transform" \notin Range(handled.stages)
           /\ stats.entities_filtered = handled.before.entities_filtered + 1
           /\ stats.transform_failures = handled.before.transform_failures

\* C4 as stated: _handle_state_change returns normally on every event, and
\* an event that is not processed increments one of the counters
C4_NoFailureEscapes ==
    handled.n > 0
        => /\ ~handled.raised
           /\ stats.state_changes_received = handled.before.state_changes_received + 1
           /\ (Handled /\ "write" \notin Range(handled.stages))
                  => Dropped(stats) = Dropped(handled.before) + 1

\* C10: the stages of an event are a prefix of the fixed order; the transform
\* runs on admitted events only, the guards on transformed readings only, the
\* location guard after the timestamp guard passed, publish and write after
\* both guards passed, and nothing is published or written otherwise
C10_StageOrder ==
    handled.n > 0
        => /\ Len(handled.stages) <= Len(StageOrder)
           /\ \A i \in 1..Len(handled.stages) : handled.stages[i] = StageOrder[i]
           /\ "transform" \in Range(handled.stages) => handled.admitted
           /\ "future" \in Range(handled.stages) => handled.reading.ok
           /\ "location" \in Range(handled.stages)
                  => handled.reading.timestamp - Now <= FUTURE_TIMESTAMP_TOLERANCE
           /\ "publish" \in Range(handled.stages)
                  => ~(handled.reading.latitude = 0 /\ handled.reading.longitude = 0)
           /\ "publish" \in Range(handled.stages) <=> "write" \in Range(handled.stages)
           /\ Len(published) > handled.published_before
                  => "publish" \in Range(handled.stages)
           /\ Len(written) > handled.written_before
                  => "write" \in Range(handled.stages)

\* An event was stopped by the null-location guard after it passed the
\* admission, the transform and the timestamp guard
C10_Witness ==
    /\ Handled
    /\ handled.stages = <<"admission", "transform", "future", "location">>
    /\ handled.reading.ok
    /\ Len(written) = handled.written_before
    /\ stats.missing_location = handled.before.missing_location + 1

\* The last event was transformed to a reading, which reached the guards
Transformed == Handled /\ handled.reading.ok

\* Nothing was published or written for the last event
NothingEmitted ==
    /\ Len(published) = handled.published_before
    /\ Len(written) = handled.written_before

\* C11: with integer-second times the orchestrator rejects a transformed
\* reading iff its timestamp minus the current time is greater than 30: the
\* rejected reading is counted in future_timestamps and neither published
\* nor written, a reading at most 30 s ahead goes on to the location guard
\* and is not counted, and the writer's own check refuses no reading that
\* the orchestrator let through
C11_FutureGuard ==
    Transformed
        => /\ (handled.stages = <<"admission", "transform", "future">>)
                 <=> (handled.reading.timestamp - Now > 30)
           /\ handled.reading.timestamp - Now > 30
                 => /\ stats.future_timestamps = handled.before.future_timestamps + 1
                    /\ NothingEmitted
           /\ handled.reading.timestamp - Now <= 30
                 => /\ stats.future_timestamps = handled.before.future_timestamps
                    /\ "location" \in Range(handled.stages)
           /\ "write" \in Range(handled.stages) => ch.last # "refused"

\* A reading exactly 30 s ahead was published and written after a reading
\* 31 s ahead had been rejected and counted
C11_Witness ==
    /\ Transformed
    /\ handled.reading.timestamp = Now + 30
    /\ "write" \in Range(handled.stages)
    /\ written[Len(written)].timestamp = Now + 30
    /\ handled.before.future_timestamps = 1
    /\ Len(written) = 1

\* The last reading passed the future-timestamp guard
PassedFutureGuard == Transformed /\ handled.reading.timestamp - Now <= 30

\* C12: a reading that passed the timestamp guard is rejected iff its
\* latitude and its longitude are both zero: the rejected reading is counted
\* in missing_location and neither published nor written; a reading with at
\* most one zero coordinate is not counted and goes on to publish and write
C12_NullLocationGuard ==
    PassedFutureGuard
        => /\ (handled.stages = <<"admission", "transform", "future", "location">>)
                 <=> (handled.reading.latitude = 0 /\ handled.reading.longitude = 0)
           /\ (handled.reading.latitude = 0 /\ handled.reading.longitude = 0)
                 => /\ stats.missing_location = handled.before.missing_location + 1
                    /\ NothingEmitted
           /\ ~(handled.reading.latitude = 0 /\ handled.reading.longitude = 0)
                 => /\ stats.missing_location = handled.before.missing_location
                    /\ "publish" \in Range(handled.stages)
                    /\ "write" \in Range(handled.stages)

\* A reading at latitude 0, longitude 5 was published and written
C12_Witness ==
    /\ PassedFutureGuard
    /\ handled.reading.latitude = 0
    /\ handled.reading.longitude = 5
    /\ Len(published) = handled.published_before + 1
    /\ Len(written) = handled.written_before + 1

\* The last reading passed both guards
PassedGuards ==
    /\ PassedFutureGuard
    /\ ~(handled.reading.latitude = 0 /\ handled.reading.longitude = 0)

\* The flush that the write of the last reading ran did not reach the database
WriteFailed ==
    /\ "write" \in Range(handled.stages)
    /\ ch.last \in {"failed", "dropped", "refused"}

\* C13: every reading that passed both guards is handed to the writer,
\* whether the publish succeeded or failed, and it is on the bus iff the
\* publish succeeded, whatever the write did
C13_PublishWriteIndependent ==
    PassedGuards
        => /\ Len(written) = handled.written_before + 1
           /\ written[Len(written)] = handled.reading
           /\ handled.publish_ok
                 => /\ Len(published) = handled.published_before + 1
                    /\ published[Len(published)] = publish_data(handled.reading)
           /\ ~handled.publish_ok => Len(published) = handled.published_before

\* A reading whose publish failed was handed to the writer and reached the
\* database
C13_Witness ==
    /\ PassedGuards
    /\ ~handled.publish_ok
    /\ Len(written) = handled.written_before + 1
    /\ ch.last = "written"
    /\ ch.db # <<>>

\* The counters that a publish and a processed reading already account for
OtherCounters ==
    DOMAIN stats \ {"state_changes_received", "entities_processed", "publish_failures"}

\* C14 as stated: a failed publish increments publish_failures, and a failed
\* database write increments a counter of its own in the orchestrator
C14_OwnFailureCounters ==
    PassedGuards
        => /\ ~handled.publish_ok
                 => stats.publish_failures = handled.before.publish_failures + 1
           /\ handled.publish_ok
                 => stats.publish_failures = handled.before.publish_failures
           /\ WriteFailed
                 => \E k \in OtherCounters : stats[k] = handled.before[k] + 1

-----------------------------------------------------------------------------
(* Properties of the writer *)

\* close() was called: the writer as it found it is hist.close_found
Closed == hist.close_called

\* C17 as stated: after close() no row is left in the buffer, and every row
\* that was in the buffer when close() was called is in the database
C17_NoRowLeftUnwritten ==
    Closed
        => /\ ch.buffer = <<>>
           /\ ch.db = hist.close_found.db \o hist.close_found.buffer

\* C17 amended: close() on a connected writer with a non-empty buffer runs
\* the insert before it closes the connection; when the insert returns, every
\* buffered row is in the database and the buffer is empty; when it raises,
\* the rows are back in the buffer and not in the database; either way the
\* connection is closed afterwards
C17_FlushBeforeClose ==
    (Closed /\ hist.close_found.client = "open" /\ hist.close_found.buffer # <<>>)
        => /\ ch.client = "closed"
           /\ ch.last \in {"written", "failed"}
           /\ ch.last = "written"
                 => /\ ch.buffer = <<>>
                    /\ ch.db = hist.close_found.db \o hist.close_found.buffer
           /\ ch.last = "failed"
                 => /\ ch.buffer = hist.close_found.buffer
                    /\ ch.db = hist.close_found.db

\* A connected writer was closed with a row in its buffer, and the row is in
\* the database
C17_Witness ==
    /\ Closed
    /\ hist.close_found.client = "open"
    /\ Len(hist.close_found.buffer) = 1
    /\ ch.client = "closed"
    /\ ch.buffer = <<>>
    /\ ch.db = hist.close_found.db \o hist.close_found.buffer

-----------------------------------------------------------------------------
(* Properties of the run *)

\* A shutdown was requested while the poll loop was running
PollShutdown == life.mode = "polling" /\ hist.shutdown_at = "poll"

\* A shutdown was requested while the connection-maintenance loop was running
LoopShutdown == life.mode = "websocket" /\ hist.shutdown_at = "loop"

\* stop() has closed the client, the publisher and the writer
Stopped == life.pc = "stopped" /\ life.closed /\ hist.close_called

\* C15: in polling mode, a shutdown request made while the poll loop runs
\* is followed by the end of the loop, the return of start() and the close
\* of the client, the publisher and the writer by stop()
C15_PollingShutdownStops == PollShutdown ~> Stopped

\* C16: in websocket mode, a shutdown request made at any step of the
\* connection-maintenance loop is followed by the end of the loop, and the
\* publisher and the writer are closed only after that, with no event
\* handled after the close
C16_WebsocketShutdownStops ==
    /\ LoopShutdown ~> (life.pc \in {"returned", "stopped"})
    /\ [](life.closed => life.pc = "stopped" /\ ~hist.after_close)

\* C18: in websocket mode, a connection attempt that is not the first one
\* comes after a backoff sleep that followed the end of the attempt before it
C18_BackoffBetweenAttempts ==
    (life.pc = "connecting" /\ hist.attempts >= 2) => hist.slept

\* C19: when load_from_client has returned on a connection, the metadata is
\* the registry snapshot of that connection when every fetch was answered,
\* and what it was before the load when a fetch failed
C19_MetadataIsSnapshot ==
    /\ hist.loaded = "complete" => metadata = LoadedMetadata(Registry(life.registry))
    /\ hist.loaded = "failed" => metadata = hist.before_load

\* C20: no event is handled while load_from_client is between its first
\* fetch and its return, and while the hub sends events on a connection the
\* callback is set and no load or filter rebuild is under way
C20_NoEventDuringLoad ==
    /\ handled.n > 0 => ~hist.during_load
    /\ (life.subscribed /\ life.ws_task = "running")
          => (life.callback /\ life.pc \notin LoadSteps)

\* An event was handled on the second connection, after the registries of
\* that connection had replaced those of the first
C20_Witness ==
    /\ handled.n >= 1
    /\ connections = 2
    /\ life.registry = "Snapshot2"
    /\ hist.loaded = "complete"
    /\ ~hist.during_load

\* C21: the events are handled in the order in which the hub sent them, on
\* one connection and across reconnects, each by a handler that has returned
\* before the next event is received: the counters have counted exactly the
\* events handled so far, and the filter cache holds at most their entities
C21_ArrivalOrder ==
    /\ \A i, j \in 1..Len(hist.done) : i < j => hist.done[i] < hist.done[j]
    /\ stats.state_changes_received = Len(hist.done)
    /\ handled.n = Len(hist.done)
    /\ Cardinality(DOMAIN cached) <= Len(hist.done)

\* Two events sent on one connection while the first was still on the
\* socket have both been handled
C21_Witness ==
    /\ life.mode = "websocket"
    /\ connections = 1
    /\ hist.done = <<1, 2>>
    /\ stats.state_changes_received = 2

\* C23: a failed database connect, a failed registry load and a failed hub
\* connect do not end the run: start() returns only after a shutdown request
\* or a failed broker connect, after a failed hub connect the loop sleeps and
\* connects again, and after a failed load it subscribes
C23_FailuresDoNotStop ==
    /\ life.pc \in {"returned", "stopped"} => (hist.shutdown \/ "broker" \in hist.failed)
    /\ (life.pc = "sleep30" /\ ~hist.shutdown) => life.running
    /\ (hist.loaded \in {"failed", "skipped"} /\ ~hist.shutdown)
          => life.pc \in {"subscribing", "waiting", "top", "connecting", "sleep30"}

\* The database connect, a registry load and a hub connect have failed, and
\* an event was handled and published afterwards
C23_Witness ==
    /\ hist.failed = {"database", "registry", "hub"}
    /\ ~hist.shutdown
    /\ connections = 2
    /\ hist.loaded = "complete"
    /\ handled.n = 1
    /\ Len(published) = 1

-----------------------------------------------------------------------------
(* Properties of convert_unit *)

Converted == call.op = "convert_unit"

\* C30: for every registered pair (A, B) and every x, converting x from A
\* to B and the result from B to A gives x back, within 1/1000
C30_ConversionRoundTrips ==
    (Converted /\ <<call.from_unit, call.to_unit>> \in RegisteredPairs)
        => RatClose(call.back, call.x)

-----------------------------------------------------------------------------
(* Properties of transform *)

TransformCalled == call.op = "transform"

\* The call has an override for its entity
Overridden == call.entity_id \in DOMAIN config.location.overrides

\* C29: under a configuration that passed validate_config, the
\* deployment_type of every reading transform returns is INDOOR, OUTDOOR or
\* MIXED
C29_DeploymentTypeValid ==
    (TransformCalled /\ call.ret.ok) => call.ret.deployment_type \in DEPLOYMENT_TYPES

\* The body of the call
CallBody == transform_body(config, metadata, call.entity_id, call.state, Now)

\* No reading type from the device class, the entity id or the unit
TypeUnresolved ==
    LET attributes == call.state.attributes
        inferred == _infer_reading_type(call.entity_id, attributes)
    IN /\ get_wesense_reading_type(DictGet(attributes.device_class, <<>>)) = None
       /\ (inferred.exc \/ inferred.value = None)

NotNumeric == ~ParsesAsFloat(DictGet(call.state.state, None))

\* Every field of the result dict is there
Complete(r) ==
    /\ r.ok
    /\ \A field \in {r.device_id, r.node_name, r.data_source, r.altitude, r.vendor,
                      r.product_line, r.device_type, r.deployment_type,
                      r.transport_type, r.country_code, r.subdivision_code,
                      r.device_location, r._meta.entity_id, r._meta.friendly_name,
                      r._meta.device_class, r._meta.original_unit} : field # Absent
    /\ Len(r.measurements) = 1
    /\ r.measurements[1].reading_type = r.reading_type
    /\ r.measurements[1].reading_type # None
    /\ r.measurements[1].timestamp = r.timestamp

\* C24: transform returns a complete reading or None, None when a statement
\* of its body raises, and None when the reading type cannot be resolved or
\* the state is not numeric
C24_AllOrNothing ==
    TransformCalled =>
        /\ call.ret = NoReading \/ Complete(call.ret)
        /\ CallBody.raised => call.ret = NoReading
        /\ (TypeUnresolved \/ NotNumeric) => call.ret = NoReading

\* A statement raised after the reading type and the value were there, and
\* transform returned None
C24_Witness ==
    /\ TransformCalled
    /\ ~TypeUnresolved
    /\ ~NotNumeric
    /\ CallBody.raised
    /\ CallBody.built.reading_type # None
    /\ call.ret = NoReading

\* The identifier of the device of the call's entity
Identifier ==
    LET known == IF metadata.present
                 THEN get_entity_info(metadata, call.entity_id).device_id ELSE None
    IN IF Truthy(known) THEN known ELSE AfterFirstDot(call.entity_id)

\* The node name of the call's entity
NodeName ==
    IF Overridden /\ Truthy(config.location.overrides[call.entity_id].node_name)
    THEN config.location.overrides[call.entity_id].node_name
    ELSE config.node_name

\* out is text with every character outside [A-Za-z0-9_] replaced by '_'
SanitizedFrom(out, text) ==
    /\ Len(out) = Len(text)
    /\ \A i \in 1..Len(text) : out[i] = IF text[i] \in WordChars THEN text[i] ELSE "_"

Suffix(s, n) == SubSeq(s, Len(s) - n + 1, Len(s))

\* C25: device_id is sanitize(node name) + "_" + sanitize(identifier), or
\* "ha_" + sanitize(identifier) without node name; it is the same for every
\* state and geocoder, and another node name changes only the prefix
C25_DeviceId ==
    (TransformCalled /\ call.ret.ok /\ Contains(call.entity_id, <<".">>)) =>
        LET id == call.ret.device_id
            n == Len(Identifier)
            prefix == SubSeq(id, 1, Len(id) - n)
        IN /\ call.ret.node_name = NodeName
           /\ Len(id) > n
           /\ SanitizedFrom(Suffix(id, n), Identifier)
           /\ IF NodeName = <<>> THEN prefix = w_ha_
              ELSE /\ SanitizedFrom(SubSeq(prefix, 1, Len(prefix) - 1), NodeName)
                   /\ prefix[Len(prefix)] = "_"
           /\ \A state \in TransformStates :
                 LET other == transform(config, metadata, call.entity_id, state, Now)
                 IN other.ok => other.device_id = id
           /\ \A g \in Geocoders :
                 LET other == transform([config EXCEPT !.geocoder = g], metadata,
                                        call.entity_id, call.state, Now)
                 IN other.ok /\ other.device_id = id
           /\ \A name \in NodeNames :
                 LET other == transform([config EXCEPT !.node_name = name], metadata,
                                        call.entity_id, call.state, Now)
                 IN /\ other.ok
                    /\ Suffix(other.device_id, n) = Suffix(id, n)

\* The device id of a device of the metadata, under a node name with a
\* character to sanitize
C25_Witness ==
    /\ TransformCalled
    /\ call.ret.ok
    /\ metadata.present
    /\ Truthy(get_entity_info(metadata, call.entity_id).device_id)
    /\ NodeName = w_my_hub
    /\ call.ret.device_id = <<"m","y","_","h","u","b","_">> \o Identifier

\* C26: latitude and longitude come from the override of the entity, else
\* from the "latitude" and "longitude" attributes, else all six fields are
\* the configured default and get_location_info is not called
C26_LocationPrecedence ==
    (TransformCalled /\ call.ret.ok) =>
        LET attributes == call.state.attributes
            defaults == config.location.default
            r == call.ret
        IN IF Overridden
           THEN /\ r.latitude = config.location.overrides[call.entity_id].latitude
                /\ r.longitude = config.location.overrides[call.entity_id].longitude
           ELSE IF attributes.latitude # Absent /\ attributes.longitude # Absent
           THEN /\ ParsesAsFloat(attributes.latitude)
                /\ ParsesAsFloat(attributes.longitude)
                /\ r.latitude = WholeNumber(FloatValue(attributes.latitude))
                /\ r.longitude = WholeNumber(FloatValue(attributes.longitude))
           ELSE /\ r.latitude = defaults.latitude
                /\ r.longitude = defaults.longitude
                /\ r.altitude = defaults.altitude
                /\ r.country_code = defaults.country_code
                /\ r.subdivision_code = defaults.subdivision_code
                /\ r.deployment_type = defaults.deployment_type
                /\ ~_get_location(config, call.entity_id, attributes).geocoded

\* An entity without override, in a configuration that has one for another
\* entity, takes the coordinates of its attributes
C26_Witness ==
    /\ TransformCalled
    /\ call.ret.ok
    /\ ~Overridden
    /\ DOMAIN config.location.overrides # {}
    /\ call.state.attributes.latitude = <<"5">>
    /\ call.state.attributes.longitude = <<"7">>
    /\ call.ret.latitude = 5
    /\ call.ret.longitude = 7

\* C27: with an override that lacks country or subdivision, the country and
\* subdivision of the reading are those of reverse geocoding, the configured
\* defaults when it gives nothing, and never empty when defaults are
\* configured
C27_GeocodingFallback ==
    (/\ TransformCalled
     /\ call.ret.ok
     /\ Overridden
     /\ \/ ~Truthy(config.location.overrides[call.entity_id].country_code)
        \/ ~Truthy(config.location.overrides[call.entity_id].subdivision_code)) =>
        LET defaults == config.location.default
            geo == reverse_geocode(config.geocoder)
            r == call.ret
        IN /\ geo.found => (/\ r.country_code = geo.country_code
                            /\ r.subdivision_code = geo.subdivision_code)
           /\ ~geo.found => (/\ r.country_code = defaults.country_code
                             /\ r.subdivision_code = defaults.subdivision_code)
           /\ (defaults.country_code # <<>> /\ defaults.subdivision_code # <<>>) =>
                 (r.country_code # <<>> /\ r.subdivision_code # <<>>)

\* C28: every optional field an override sets is the one of the reading,
\* whatever its other optional fields are
C28_IndependentFallback ==
    (TransformCalled /\ call.ret.ok /\ Overridden) =>
        LET override == config.location.overrides[call.entity_id]
            r == call.ret
        IN /\ override.altitude # None => r.altitude = override.altitude
           /\ Truthy(override.country_code) => r.country_code = override.country_code
           /\ Truthy(override.subdivision_code) =>
                 r.subdivision_code = override.subdivision_code
           /\ Truthy(override.deployment_type) =>
                 r.deployment_type = override.deployment_type
           /\ Truthy(override.node_name) => r.node_name = override.node_name

-----------------------------------------------------------------------------
(* Properties of the dry-run mode *)

\* The outcome of the handler on the event of the step in a live run from
\* the same state
Live(delivered) ==
    _handle_state_change([config EXCEPT !.dry_run = FALSE], metadata, stats, cached,
                         call'.event, Now, delivered, published, written)

\* C22: with dry_run set no message goes to the broker and no row into the
\* database, on an event, a flush or the close; and on every event the
\* stages, the reading, the cache and the counters other than
\* publish_failures are those of the live handler on the same event
C22_DryRun ==
    [][config.dry_run =>
          /\ published' = <<>>
          /\ ch'.db = <<>>
          /\ ch'.client = "none"
          /\ handled'.n = handled.n + 1 =>
                \A live \in {Live(delivered) : delivered \in BOOLEAN} :
                    /\ handled'.stages = live.stages
                    /\ handled'.raised = live.raised
                    /\ handled'.reading = live.reading
                    /\ cached' = live.cache
                    /\ written' = live.written
                    /\ \A c \in DOMAIN stats \ {"publish_failures"} :
                          stats'[c] = live.stats[c]]_vars

\* In dry-run mode a reading went through the publish and the write, and a
\* flush logged the rows
C22_Witness ==
    /\ config.dry_run
    /\ handled.n >= 1
    /\ handled.stages # <<>>
    /\ handled.stages[Len(handled.stages)] = "write"
    /\ handled.reading.ok
    /\ ch.last = "dry"
    /\ ch.buffer = <<>>
    /\ published = <<>>
    /\ stats.entities_processed >= 1

-----------------------------------------------------------------------------
(* Properties of transform on the units of the hub *)

\* The unit of the call, as the hub wrote it
CallUnit == call.state.attributes.unit_of_measurement

\* The reading type of the call comes from the unit: the device class maps
\* to none, no keyword occurs in the entity id, and the unit is a string
InferredFromUnit ==
    /\ TransformCalled
    /\ get_wesense_reading_type(DictGet(call.state.attributes.device_class, <<>>)) = None
    /\ FirstContained(id_patterns, LowerStr(call.entity_id)) = None
    /\ CallUnit \notin {Absent, None}

\* C36: when the reading type is inferred from the unit, a unit equal to a
\* key of the unit table yields the reading type of that key
C36_UnitKeysEffective ==
    InferredFromUnit =>
        \A i \in 1..Len(unit_patterns) :
            LowerStr(CallUnit) = unit_patterns[i][1] =>
                call.ret.reading_type = unit_patterns[i][2]

\* C36 for every key but "kwh", in which the earlier key "w" occurs
C36_KeysBeforeShadowEffective ==
    InferredFromUnit =>
        \A i \in 1..Len(unit_patterns) :
            (LowerStr(CallUnit) = unit_patterns[i][1] /\ unit_patterns[i][1] # <<"k","w","h">>) =>
                call.ret.reading_type = unit_patterns[i][2]


\* The measurement of the reading the call returned
Emitted == call.ret.measurements[1]

\* The canonical unit of the reading type of the call, "" when it has none
CanonicalUnit == get_standard_unit(call.ret.reading_type)

\* The unit of the hub, "" when the state has none
HubUnit == DictGet(CallUnit, <<>>)

\* The hub unit is there, differs from the canonical unit, and no conversion
\* is registered for the pair
Unconvertible ==
    /\ TransformCalled /\ call.ret.ok
    /\ HubUnit # <<>>
    /\ CanonicalUnit # <<>>
    /\ HubUnit # CanonicalUnit
    /\ <<HubUnit, CanonicalUnit>> \notin RegisteredPairs

\* The value of the state, as float() reads it
StateValue == FloatValue(call.state.state)

\* The emitted unit is the canonical unit of the reading type when it has
\* one, the hub unit otherwise
CanonicalLabel ==
    (TransformCalled /\ call.ret.ok) =>
        /\ Emitted.unit = IF CanonicalUnit # <<>> THEN CanonicalUnit ELSE HubUnit
        /\ call.ret.unit = Emitted.unit

\* C40, as stated: the emitted unit is the canonical unit whenever there is
\* one, and the value of an unconvertible unit is emitted numerically
\* unchanged under the canonical label
C40_UnconvertiblePassesUnchanged ==
    /\ CanonicalLabel
    /\ Unconvertible => Emitted.value = StateValue

\* C40, amended: the emitted unit is the canonical unit whenever there is
\* one, and the value of an unconvertible unit is emitted unconverted under
\* the canonical label, rounded to four decimals as every emitted value
\* (nan stays nan)
C40_UnconvertiblePassesRounded ==
    /\ CanonicalLabel
    /\ Unconvertible =>
           Emitted.value = IF Special(StateValue) THEN StateValue ELSE Round4(StateValue)

\* 1.23456 foo of a temperature is emitted as 1.2346 degC
C40_Witness ==
    /\ Unconvertible
    /\ HubUnit = w_foo
    /\ Emitted.unit = <<"deg","C">>
    /\ StateValue = <<3858, 3125>>
    /\ Emitted.value = <<6173, 5000>>


-----------------------------------------------------------------------------
(* Properties of transform on the entities of one device *)

\* The hub device the registry gives for entity_id, None when it gives none
HubDevice(entity_id) == get_entity_info(metadata, entity_id).device_id

\* The entities the registry maps to the device of the call's entity
SameDevice ==
    {e \in DOMAIN metadata.entities :
        Truthy(HubDevice(e)) /\ HubDevice(e) = HubDevice(call.entity_id)}

\* C33: every entity that the metadata maps to the hub device of the
\* transformed entity gets the device_id that this entity got
C33_OneIdPerDevice ==
    (TransformCalled /\ call.ret.ok) =>
        \A e \in SameDevice :
            transform(config, metadata, e, call.state, Now).device_id = call.ret.device_id

\* C33 for the configurations in which no entity of the device has a node
\* name of its own
C33_OneIdPerDeviceAndNodeName ==
    (TransformCalled /\ call.ret.ok) =>
        \A e \in SameDevice :
            _get_node_name(config, e) = _get_node_name(config, call.entity_id) =>
                transform(config, metadata, e, call.state, Now).device_id
                    = call.ret.device_id


-----------------------------------------------------------------------------
(* Properties of the rows of the writer *)

\* The rows of the readings that write() accepted, in the order of the calls
RECURSIVE AcceptedRows(_)
AcceptedRows(ws) ==
    IF ws = <<>> THEN <<>>
    ELSE LET data == ws[Len(ws)]
         IN AcceptedRows(SubSeq(ws, 1, Len(ws) - 1))
            \o (IF data.timestamp - Now > WRITER_FUTURE_TIMESTAMP_TOLERANCE THEN <<>>
                ELSE _transform_to_row(data))

\* C35: while the writer has a connected client, the rows write() accepted
\* are the rows in the database followed by the rows in the buffer, in the
\* order of the calls (a failed insert puts its batch back in place),
\* total_written counts the rows in the database (it grows by the batches
\* whose insert returned only), and accepted = total_written + buffered
C35_NoRowLost ==
    ch.client = "open" =>
        /\ ch.db \o ch.buffer = AcceptedRows(written)
        /\ ch.total_written = Len(ch.db)
        /\ Len(AcceptedRows(written)) = ch.total_written + Len(ch.buffer)

\* An insert of two different rows failed after one row had been written:
\* the two rows are back in the buffer
C35_Witness ==
    /\ ch.client = "open"
    /\ ch.last = "failed"
    /\ ch.total_written = 1
    /\ Len(ch.buffer) = 2
    /\ ch.buffer[1].timestamp # ch.buffer[2].timestamp
    /\ Len(AcceptedRows(written)) = 3


-----------------------------------------------------------------------------
(* Properties of the payload and the reading *)

\* The last event passed both guards, its publish succeeded and its row was
\* inserted
PublishedAndInserted ==
    /\ PassedGuards
    /\ handled.publish_ok
    /\ ch.last = "written"

\* C32: no payload on the bus has the key '_meta', a payload has every other
\* key of its reading with the reading's value, and the reading that the
\* writer receives after the publish is the transformed reading with its
\* '_meta' block: the row's board_model is the device class of the block
C32_PayloadWithoutMeta ==
    /\ \A i \in DOMAIN published : "_meta" \notin DOMAIN published[i]
    /\ PassedGuards =>
           /\ "_meta" \in DOMAIN written[Len(written)]
           /\ written[Len(written)]._meta = handled.reading._meta
           /\ written[Len(written)]._meta.entity_id = handled.entity_id
           /\ handled.publish_ok =>
                  /\ DOMAIN published[Len(published)]
                         = DOMAIN handled.reading \ {"_meta"}
                  /\ \A k \in DOMAIN published[Len(published)] :
                         published[Len(published)][k] = handled.reading[k]
    /\ PublishedAndInserted =>
           ch.db[Len(ch.db)].board_model
               = DictGet(handled.reading._meta.device_class, <<>>)

\* A temperature reading was published without its '_meta' block and its
\* row was inserted with the device class as board_model
C32_Witness ==
    /\ PublishedAndInserted
    /\ Len(published) = handled.published_before + 1
    /\ "_meta" \notin DOMAIN published[Len(published)]
    /\ handled.reading._meta.device_class = w_Temperature
    /\ ch.db[Len(ch.db)].board_model = w_Temperature


-----------------------------------------------------------------------------
(* Properties of the counters *)

\* The events that one of the five outcome counters accounts for
Accounted ==
    stats.entities_filtered + stats.transform_failures + stats.future_timestamps
        + stats.missing_location + stats.entities_processed

\* C37: between any two events the events received are those that the five
\* outcome counters account for and those delivered with an empty new state
\* (handled.empty_states counts them), and publish_failures is at most
\* entities_processed
C37_CounterConservation ==
    /\ stats.state_changes_received = Accounted + handled.empty_states
    /\ stats.publish_failures <= stats.entities_processed

\* The conservation with the events that an exception of the filter ended:
\* every received event is accounted for, had an empty new state, or left
\* the handler by an exception
C37_ConservationUpToRaised ==
    /\ stats.state_changes_received >= Accounted + handled.empty_states
    /\ stats.publish_failures <= stats.entities_processed
    /\ ~handled.raised /\ handled.before.state_changes_received
                             = handled.before.entities_filtered
                               + handled.before.transform_failures
                               + handled.before.future_timestamps
                               + handled.before.missing_location
                               + handled.before.entities_processed
                               + (handled.empty_states
                                  - (IF handled.n > 0 /\ ~handled.has_new_state
                                     THEN 1 ELSE 0))
          => stats.state_changes_received = Accounted + handled.empty_states

\* An event was received whose handler an exception ended: no counter but
\* state_changes_received moved
C37_RaisedEvent ==
    /\ handled.raised
    /\ stats.state_changes_received = handled.before.state_changes_received + 1
    /\ \A c \in DOMAIN stats \ {"state_changes_received"} : stats[c] = handled.before[c]


-----------------------------------------------------------------------------
(* The polling mode: start() with its safety scan, then poll_states *)

\* get_states calls of poll_states in a run
MaxPolls == 2

w_meshtastic == <<"m","e","s","h","t","a","s","t","i","c">>
w_esp32 == <<"e","s","p","3","2">>
w_esp8266 == <<"e","s","p","8","2","6","6">>
w_esphome == <<"e","s","p","h","o","m","e">>

\* The keywords of find_suspicious_entities
suspicious_keywords == {w_wesense, w_meshtastic, w_esp32, w_esp8266, w_esphome}

\* "sensor.esp32_temp": an id with a keyword of the scan that the base
\* exclude pattern does not match
idEsp == w_sensor \o <<".">> \o w_esp32 \o <<"_","t","e","m","p">>

\* A state of the list that get_states returns: the "entity_id" key, which
\* may be missing, and the rest of the state dict
HubState(entity_id, state) == [entity_id |-> entity_id, state |-> state]

\* The state dicts of the hub in these runs: a temperature, an unavailable
\* one, and a temperature whose device_class is null
PollStateDicts ==
    {StateDict(w_21_5, w_Temperature, Absent, Absent),
     StateDict(w_unavailable, w_Temperature, Absent, Absent),
     StateDict(w_21_5, None, Absent, Absent)}

\* What get_states returns: no state, one entity, the two entities in either
\* order, or a state without "entity_id" before one entity
Snapshots ==
    {<<>>}
        \cup {<<HubState(e, s)>> : e \in {idTemp, idEsp}, s \in PollStateDicts}
        \cup {<<HubState(e[1], s1), HubState(e[2], s2)>> :
                 e \in {<<idTemp, idEsp>>, <<idEsp, idTemp>>},
                 s1 \in PollStateDicts, s2 \in PollStateDicts}
        \cup {<<HubState(Absent, s), HubState(idTemp, s)>> : s \in PollStateDicts}

\* One round of the for loop of find_suspicious_entities, on what the first
\* should_ingest call (r1) and the second one (r2) return
scan_state(entity_id, cache, r1, r2) ==
    LET mac == PatternSearch(PatMac, entity_id)
        kw == \E k \in suspicious_keywords : Contains(LowerStr(entity_id), k)
    IN IF mac /\ r1.exc THEN [exc |-> TRUE, cache |-> cache, found |-> <<>>]
       ELSE IF mac /\ r1.ret THEN [exc |-> FALSE, cache |-> r1.cache, found |-> <<entity_id>>]
       ELSE IF mac /\ kw
            THEN [exc |-> r2.exc, cache |-> r2.cache,
                  found |-> IF r2.ret THEN <<entity_id>> ELSE <<>>]
       ELSE IF mac THEN [exc |-> FALSE, cache |-> r1.cache, found |-> <<>>]
       ELSE IF kw
            THEN [exc |-> r1.exc, cache |-> r1.cache,
                  found |-> IF r1.ret THEN <<entity_id>> ELSE <<>>]
       ELSE [exc |-> FALSE, cache |-> cache, found |-> <<>>]

\* EntityFilter.find_suspicious_entities: the ids it returns, the cache of
\* the filter after it, and whether a should_ingest call raised
RECURSIVE find_suspicious_entities(_, _, _, _)
find_suspicious_entities(f, meta, cache, states) ==
    IF states = <<>> THEN [exc |-> FALSE, cache |-> cache, suspicious |-> <<>>]
    ELSE \* entity_id = state.get("entity_id", "")
         LET entity_id == DictGet(Head(states).entity_id, <<>>)
             r1 == should_ingest(f, meta, cache, entity_id, Head(states).state)
             one == scan_state(entity_id, cache, r1,
                               should_ingest(f, meta, r1.cache, entity_id,
                                             Head(states).state))
         IN IF one.exc THEN [exc |-> TRUE, cache |-> one.cache, suspicious |-> <<>>]
            ELSE LET rest == find_suspicious_entities(f, meta, one.cache, Tail(states))
                 IN [exc |-> rest.exc, cache |-> rest.cache,
                     suspicious |-> IF rest.exc THEN <<>>
                                    ELSE one.found \o rest.suspicious]

\* _safety_check: get_states and the scan, inside a try that catches every
\* exception; the scan leaves the decisions it asked for in the filter
_safety_check(f, meta, cache, get_ok, states) ==
    IF get_ok THEN find_suspicious_entities(f, meta, cache, states).cache ELSE cache

\* The metadata with which _run_polling_mode calls poll_states, when the
\* polling mode loads the registries as the websocket mode does
polling_metadata_loaded(meta) == LoadedMetadata(Snapshot1)

\* The metadata with which _run_polling_mode calls poll_states: no statement
\* of the polling mode loads the registries or builds a filter
polling_metadata(meta) == meta

\* previous_states of poll_states before the first poll
NoStates == [e \in {} |-> HubState(Absent, StateDict(Absent, Absent, Absent, Absent))]

\* d[key] = value
Put(d, key, value) == [k \in DOMAIN d \cup {key} |-> IF k = key THEN value ELSE d[k]]

\* The state of the polling run
NewPoll == [mode |-> "polling", pc |-> "start", previous_states |-> NoStates]

\* Nothing has happened yet: the polls made, the cache after the scan, the
\* cache of a filter that the scan has not used (shadow), whether a decision
\* given to an event differed from the one of that filter, the state on
\* which each cached decision was made, the record last handed to the
\* callback for each entity, and the last poll
NoPollHist ==
    [polls |-> 0, scanned |-> EmptyCache, shadow |-> EmptyCache, diverged |-> FALSE,
     decided_on |-> NoStates, last_delivered |-> NoStates, raises |-> 0,
     last |-> [snapshot |-> <<>>, previous_states |-> NoStates,
               last_delivered |-> NoStates, delivered |-> <<>>, raised |-> FALSE]]

\* The for loop of poll_states on one state: skipped, or the callback o has
\* run on it; r is what should_ingest returned and s what it returns on the
\* filter that the scan has not used
poll_state(acc, state, o, r, s) ==
    IF ~Truthy(state.entity_id) THEN acc
    ELSE IF /\ state.entity_id \in DOMAIN acc.previous_states
            /\ acc.previous_states[state.entity_id] = state
    THEN acc
    ELSE [previous_states |-> IF o.raised THEN acc.previous_states
                              ELSE Put(acc.previous_states, state.entity_id, state),
          cache |-> o.cache, stats |-> o.stats, published |-> o.published,
          written |-> o.written,
          ch |-> IF "write" \in Range(o.stages)
                 THEN write(acc.ch, o.reading, Now, FALSE, TRUE) ELSE acc.ch,
          delivered |-> Append(acc.delivered, state),
          raised |-> o.raised,
          raises |-> IF o.raised THEN acc.raises + 1 ELSE acc.raises,
          shadow |-> s.cache,
          diverged |-> acc.diverged \/ r.exc # s.exc \/ r.ret # s.ret,
          decided_on |-> IF r.exc \/ r.hit THEN acc.decided_on
                         ELSE Put(acc.decided_on, state.entity_id, state),
          last_delivered |-> Put(acc.last_delivered, state.entity_id, state)]

\* poll_states, for state in states: an exception of the callback leaves
\* the loop
RECURSIVE poll_loop(_, _, _, _)
poll_loop(cfg, meta, acc, states) ==
    IF states = <<>> \/ acc.raised THEN acc
    ELSE poll_loop(cfg, meta,
                   poll_state(acc, Head(states),
                              _handle_state_change(cfg, meta, acc.stats, acc.cache,
                                  Event(Head(states).entity_id, TRUE, Head(states).state),
                                  Now, TRUE, acc.published, acc.written),
                              should_ingest(cfg.filters, meta, acc.cache,
                                            Head(states).entity_id, Head(states).state),
                              should_ingest(cfg.filters, meta, acc.shadow,
                                            Head(states).entity_id, Head(states).state)),
                   Tail(states))

\* The configurations of the polling runs: the base denylist, and the base
\* denylist with an excluded integration and an excluded manufacturer
PollConfigs ==
    {ConfigOf(f, [latitude |-> -41, longitude |-> 174]) :
        f \in {BaseFilters,
               [BaseFilters EXCEPT !.exclude_integrations = {w_MQTT},
                                   !.exclude_manufacturers = {w_WeSense}]}}

\* main() has created the ingester; the mode of the configuration is polling
InitPoll ==
    /\ config \in PollConfigs
    /\ metadata = EmptyMetadata
    /\ ch = NewWriter
    /\ cached = EmptyCache
    /\ first = EmptyCache
    /\ call = NoCall
    /\ stats = ZeroStats
    /\ handled = NoHandled
    /\ published = <<>>
    /\ written = <<>>
    /\ connections = 0
    /\ life = NewPoll
    /\ hist = NoPollHist

\* start() in polling mode: the two connects, the filter on the empty
\* metadata, the safety check, and _run_polling_mode up to poll_states
PollStartup ==
    \E ch_ok \in BOOLEAN, get_ok \in BOOLEAN, states \in Snapshots :
        /\ life.pc = "start"
        /\ ch' = connect(ch, ch_ok)
        /\ cached' = _safety_check(config.filters, metadata, EmptyCache, get_ok, states)
        /\ metadata' = polling_metadata(metadata)
        /\ life' = [life EXCEPT !.pc = "polling"]
        /\ hist' = [hist EXCEPT !.scanned = cached']
        /\ UNCHANGED <<config, first, call, stats, handled, published, written,
                       connections>>

\* One round of the while loop of poll_states: get_states fails, or the
\* callback runs on the states that have changed, until one call raises
PollRound ==
    \E get_ok \in BOOLEAN, states \in Snapshots :
        /\ life.pc = "polling"
        /\ hist.polls < MaxPolls
        /\ \E acc \in {poll_loop(config, metadata,
                          [previous_states |-> life.previous_states, cache |-> cached,
                           stats |-> stats, published |-> published,
                           written |-> written, ch |-> ch, delivered |-> <<>>,
                           raised |-> FALSE, raises |-> hist.raises,
                           shadow |-> hist.shadow, diverged |-> hist.diverged,
                           decided_on |-> hist.decided_on,
                           last_delivered |-> hist.last_delivered],
                          IF get_ok THEN states ELSE <<>>)} :
              /\ life' = [life EXCEPT !.previous_states = acc.previous_states]
              /\ cached' = acc.cache
              /\ stats' = acc.stats
              /\ published' = acc.published
              /\ written' = acc.written
              /\ ch' = acc.ch
              /\ hist' = [hist EXCEPT !.polls = @ + 1, !.shadow = acc.shadow,
                                       !.diverged = acc.diverged,
                                       !.decided_on = acc.decided_on,
                                       !.last_delivered = acc.last_delivered,
                                       !.raises = acc.raises,
                                       !.last = [snapshot |-> IF get_ok THEN states ELSE <<>>,
                                                 previous_states |-> life.previous_states,
                                                 last_delivered |-> hist.last_delivered,
                                                 delivered |-> acc.delivered,
                                                 raised |-> acc.raised]]
        /\ UNCHANGED <<config, metadata, first, call, handled, connections>>

NextPoll == PollStartup \/ PollRound

SpecPoll == InitPoll /\ [][NextPoll]_vars


-----------------------------------------------------------------------------
(* Properties of the polling mode *)

\* C31: the scan of the safety check does not change the decision that a
\* later event receives: every should_ingest call made for an event has
\* returned (or raised) what it does on a filter that the scan has not used
C31_ScanDoesNotGate == ~hist.diverged

\* When the scan has asked the filter nothing, the decisions are those of a
\* filter that the scan has not used
C31_NothingAskedNothingChanged == hist.scanned = EmptyCache => ~hist.diverged

\* The scan found sensor.esp32_temp unavailable and cached the rejection; the
\* entity then reported a temperature, and the event was filtered out
C31_ScanGates ==
    /\ hist.diverged
    /\ idEsp \in DOMAIN hist.scanned
    /\ ~hist.scanned[idEsp]
    /\ idEsp \in DOMAIN hist.shadow
    /\ hist.shadow[idEsp]
    /\ stats.entities_filtered > 0

\* The states of the snapshot that have an entity id and differ from the
\* record last handed to the callback for their entity
ChangedStates(snapshot, delivered_before) ==
    LET Changed(s) == /\ Truthy(s.entity_id)
                      /\ \/ s.entity_id \notin DOMAIN delivered_before
                         \/ delivered_before[s.entity_id] # s
    IN SelectSeq(snapshot, Changed)

\* The records remembered after a poll: those of the calls that returned
\* over those remembered before it
Remembered(before, returned) ==
    [id \in DOMAIN before \cup {returned[i].entity_id : i \in DOMAIN returned} |->
        IF \E i \in DOMAIN returned : returned[i].entity_id = id
        THEN CHOOSE s \in Range(returned) : s.entity_id = id
        ELSE before[id]]

\* The callback was invoked on the changed states of the last poll, in the
\* order of the snapshot, and each record was remembered once its call had
\* returned
PollDelivered ==
    /\ hist.last.delivered = ChangedStates(hist.last.snapshot, hist.last.last_delivered)
    /\ life.previous_states
           = Remembered(hist.last.previous_states,
                        IF hist.last.raised
                        THEN SubSeq(hist.last.delivered, 1, Len(hist.last.delivered) - 1)
                        ELSE hist.last.delivered)

\* C34: in each poll the callback is invoked for exactly the entities whose
\* state record differs from the record last delivered for them (all on the
\* first poll), in snapshot order, and the remembered record of an entity
\* is updated only after its callback has returned
C34_PollDelivers == hist.polls > 0 => PollDelivered

\* The same in the runs where no callback has raised
C34_PollDeliversUnlessRaised == hist.polls > 0 /\ hist.raises = 0 => PollDelivered

\* The callback raised on the first of two changed entities: the second one
\* was not delivered in that poll
C34_AbortedPoll ==
    /\ hist.last.raised
    /\ Len(hist.last.snapshot) = 2
    /\ Len(hist.last.delivered) = 1
    /\ hist.last.snapshot[2].entity_id \notin DOMAIN hist.last.last_delivered

\* The filters without the manufacturer and integration exclusions
WithoutExclusions(f) ==
    [f EXCEPT !.exclude_integrations = {}, !.exclude_manufacturers = {}]

\* C39: in polling mode the metadata stays empty and the filter built at
\* startup is kept: the decisions of the scan stay cached, every cached
\* decision made on an event is the one the filters give without the
\* manufacturer and integration exclusions, every device id is built from
\* the text after the first '.' of the entity id, and every transport type
\* is UNKNOWN
C39_PollingWithoutMetadata ==
    /\ metadata = EmptyMetadata
    /\ \A id \in DOMAIN hist.scanned : id \in DOMAIN cached /\ cached[id] = hist.scanned[id]
    /\ \A id \in DOMAIN hist.decided_on :
          /\ id \in DOMAIN cached
          /\ cached[id] = _evaluate_filters(WithoutExclusions(config.filters), NoMetadata,
                                            id, hist.decided_on[id].state).ret
    /\ \A i \in DOMAIN written :
          /\ written[i].device_id
                = w_ha_ \o sanitize(AfterFirstDot(written[i]._meta.entity_id))
          /\ written[i].transport_type = w_UNKNOWN

\* With the integration mqtt and the manufacturer WeSense excluded, a
\* reading of sensor.t_temp (an mqtt entity of a WeSense device in the
\* registry of the hub) was admitted and written in the second poll
C39_Witness ==
    /\ life.pc = "polling"
    /\ hist.polls = 2
    /\ config.filters.exclude_integrations = {w_MQTT}
    /\ idTemp \in DOMAIN hist.decided_on
    /\ cached[idTemp]
    /\ written # <<>>
    /\ written[Len(written)]._meta.entity_id = idTemp
    /\ written[Len(written)].transport_type = w_UNKNOWN


-----------------------------------------------------------------------------
(* The pending requests of the websocket client *)

\* The events of these runs
SocketEvents ==
    {Event(e, TRUE, StateDict(v, w_Temperature, Absent, Absent)) :
        e \in {idTemp, idTempX}, v \in {w_21_5, w_unavailable}}

\* A text message of the hub: id 0 stands for a message without "id"
Message(id, type, event) == [id |-> id, type |-> type, event |-> event]

\* The result message that answers the request id
ResultMessage(id) ==
    Message(id, "result", Event(None, FALSE, StateDict(Absent, Absent, Absent, Absent)))

\* The client on an authenticated connection whose message loop is running:
\* no request sent, nothing on the socket; requested and subscription are
\* the hub's side (the request it has to answer, the id of the subscription).
\* _ws_callbacks maps the id of a request to the state of its future, and
\* ws_id is the id of the last request sent before (the three registry
\* requests, or none).
NewSocket(ws_id) ==
    [mode |-> "websocket", pc |-> "subscribe", _ws_id |-> ws_id, callback |-> FALSE,
     _ws_callbacks |-> [i \in {} |-> "pending"], socket |-> <<>>, loop |-> "receiving",
     requested |-> 0, subscription |-> 0]

\* Nothing has happened yet: the events sent, the state_changed events read
\* with a callback registered, the invocations of the callback, the
\* set_result calls that raised InvalidStateError
NoSocketHist == [sent |-> 0, read |-> 0, invoked |-> 0, errors |-> 0]

\* _handle_ws_message: a message whose id is that of a pending-request entry
\* goes to set_result of the entry's future, which raises InvalidStateError
\* when the future is done; a state_changed event goes to the callback if
\* there is one; every other message is dropped
_handle_ws_message(callbacks, callback, msg) ==
    IF msg.id # 0 /\ msg.id \in DOMAIN callbacks
    THEN IF callbacks[msg.id] = "pending"
         THEN [do |-> "set_result", callbacks |-> [callbacks EXCEPT ![msg.id] = "done"]]
         ELSE [do |-> "raise", callbacks |-> callbacks]
    ELSE IF msg.type = "event" /\ callback
    THEN [do |-> "callback", callbacks |-> callbacks]
    ELSE [do |-> "nothing", callbacks |-> callbacks]

InitSocket ==
    /\ config = ConfigOf(BaseFilters, [latitude |-> -41, longitude |-> 174])
    /\ metadata \in {EmptyMetadata, LoadedMetadata(Snapshot1)}
    /\ ch = connect(NewWriter, TRUE)
    /\ cached = EmptyCache
    /\ first = EmptyCache
    /\ call = NoCall
    /\ stats = ZeroStats
    /\ handled = NoHandled
    /\ published = <<>>
    /\ written = <<>>
    /\ connections = 1
    /\ life \in {NewSocket(ws_id) : ws_id \in {0, 3}}
    /\ hist = NoSocketHist

\* subscribe_state_changes up to the await of the answer: the callback is
\* set, and _send_ws_message takes the next id, registers a future under it
\* and sends the request
SocketSubscribe ==
    /\ life.pc = "subscribe"
    /\ life' = [life EXCEPT !.pc = "awaiting", !.callback = TRUE,
                             !._ws_id = @ + 1,
                             !._ws_callbacks = Put(@, life._ws_id + 1, "pending"),
                             !.requested = life._ws_id + 1]
    /\ UNCHANGED <<config, metadata, cached, first, call, stats, handled, published,
                   written, connections, ch, hist>>

\* The hub answers the subscribe request: the connection is subscribed, and
\* the events of the subscription carry the id of the request
SocketHubResult ==
    /\ life.requested # 0
    /\ life' = [life EXCEPT !.socket = Append(@, ResultMessage(life.requested)),
                             !.subscription = life.requested, !.requested = 0]
    /\ UNCHANGED <<config, metadata, cached, first, call, stats, handled, published,
                   written, connections, ch, hist>>

\* The hub sends a state_changed event of the subscription
SocketHubEvent ==
    \E ev \in SocketEvents :
        /\ life.subscription # 0
        /\ hist.sent < MaxDelivered
        /\ life' = [life EXCEPT !.socket = Append(@, Message(life.subscription, "event", ev))]
        /\ hist' = [hist EXCEPT !.sent = @ + 1]
        /\ UNCHANGED <<config, metadata, cached, first, call, stats, handled, published,
                       written, connections, ch>>

\* One round of run_websocket_loop on a text message: _handle_ws_message,
\* with the callback it awaits; an exception is logged and the loop sleeps
\* one second
SocketLoopReceive ==
    /\ life.loop = "receiving"
    /\ life.socket # <<>>
    /\ \E r \in {receive(life.socket)} :
       \E h \in {_handle_ws_message(life._ws_callbacks, life.callback, r.msg)} :
          /\ hist' = [hist EXCEPT !.read = IF r.msg.type = "event" /\ life.callback
                                           THEN @ + 1 ELSE @,
                                   !.invoked = IF h.do = "callback" THEN @ + 1 ELSE @,
                                   !.errors = IF h.do = "raise" THEN @ + 1 ELSE @]
          /\ IF h.do = "callback"
             THEN /\ Deliver(r.msg.event, TRUE, {FALSE}, {TRUE})
                  /\ life' = [life EXCEPT !.socket = r.rest,
                                           !.loop = IF handled'.raised THEN "sleeping"
                                                    ELSE "receiving"]
             ELSE /\ life' = [life EXCEPT !.socket = r.rest,
                                           !._ws_callbacks = h.callbacks,
                                           !.loop = IF h.do = "raise" THEN "sleeping"
                                                    ELSE "receiving"]
                  /\ UNCHANGED <<cached, stats, handled, published, written, ch>>
    /\ UNCHANGED <<config, metadata, first, call, connections>>

\* The sleep of the except clause of run_websocket_loop is over
SocketLoopWake ==
    /\ life.loop = "sleeping"
    /\ life' = [life EXCEPT !.loop = "receiving"]
    /\ UNCHANGED <<config, metadata, cached, first, call, stats, handled, published,
                   written, connections, ch, hist>>

\* _send_ws_message resumes when its future is done: the finally clause
\* removes the pending-request entry, and subscribe_state_changes returns
SocketWaiterResumes ==
    /\ life.pc = "awaiting"
    /\ life._ws_callbacks[life._ws_id] = "done"
    /\ life' = [life EXCEPT !.pc = "subscribed",
                             !._ws_callbacks = [i \in DOMAIN @ \ {life._ws_id} |-> @[i]]]
    /\ UNCHANGED <<config, metadata, cached, first, call, stats, handled, published,
                   written, connections, ch, hist>>

\* wait_for gives up after 30 s without an answer: the entry is removed,
\* subscribe_state_changes raises, and the ingester cancels the message loop
SocketWaiterTimeout ==
    /\ life.pc = "awaiting"
    /\ life._ws_callbacks[life._ws_id] = "pending"
    /\ life' = [life EXCEPT !.pc = "failed", !.loop = "cancelled",
                             !._ws_callbacks = [i \in DOMAIN @ \ {life._ws_id} |-> @[i]]]
    /\ UNCHANGED <<config, metadata, cached, first, call, stats, handled, published,
                   written, connections, ch, hist>>

NextSocket ==
    \/ SocketSubscribe \/ SocketHubResult \/ SocketHubEvent \/ SocketLoopReceive
    \/ SocketLoopWake \/ SocketWaiterResumes \/ SocketWaiterTimeout

SpecSocket == InitSocket /\ [][NextSocket]_vars

-----------------------------------------------------------------------------
(* Properties of the pending requests *)

\* C38: every state_changed event message that the message loop has read
\* while a callback was registered has led to one invocation of the
\* callback, whenever the waiter of an answered request removes its entry
C38_EveryEventInvokes == hist.read = hist.invoked

\* The events read with no pending-request entry under their id have each
\* led to one invocation of the callback
C38_EveryEventInvokesUnlessPending == hist.read = hist.invoked + hist.errors

\* An event of the subscription was read while the answered subscribe
\* request still had its entry: set_result raised and the callback did not
\* run
C38_EventLost ==
    /\ hist.errors = 1
    /\ hist.read = 1
    /\ hist.invoked = 0
    /\ life.pc = "awaiting"
    /\ life.loop = "sleeping"

=============================================================================
